---- MODULE Spec2Model ----
(***************************************************************************)
(* Interactive resize grab and resize-commit state machine of the          *)
(* compositor (src/src/grab/resize_grab.rs), together with the part of the *)
(* window lifecycle (src/src/handlers/xwayland.rs) it depends on.          *)
(*                                                                         *)
(* Pointer locations are f64 in the source; they are modelled in half      *)
(* pixels (the integer n stands for n/2), so that to_i32_round is a real   *)
(* rounding.  Window locations and sizes are whole pixels: every f64       *)
(* window location in the source is computed from i32 values, for which    *)
(* the i32 -> f64 -> i32 round trip is exact.                              *)
(*                                                                         *)
(* Fields that the handlers only write (floating_loc, floating_size, the   *)
(* cursor image, the configures sent to clients) are recorded in `last`,   *)
(* the effects of the handler that ran last.                               *)
(***************************************************************************)
EXTENDS Integers, Sequences, FiniteSets, TLC

\* ------------------------------------------------------------------ bounds
MaxPtr == 1
MaxSize == 2
MaxCoord == 1
MaxHint == 2
MaxDelta == 2
MaxDups == 1
MaxSetup == 4

\* ------------------------------------------------------- program constants
I32Max == 2147483647

Wins == {1}
Buttons == {1, 2}
ReqButtons == {1}
Kinds == {"wayland", "x11", "x11_or"}
AllEdges == {"None", "Top", "Bottom", "Left", "TopLeft", "BottomLeft",
             "Right", "TopRight", "BottomRight"}
ReqEdges == {"TopLeft", "BottomRight"}

NoLoc == <<"none">>
NoSize == <<"none">>
Origin == <<0, 0>>

Sizes == {<<i, MaxSize + 1 - i>> : i \in 1..MaxSize}
PtrLocs == {<<i, -i>> : i \in 0..MaxPtr}
MapLocs == {Origin}

\* ResizeSurfaceState
Idle == [st |-> "Idle", edges |-> "None", loc |-> Origin, size |-> <<0, 0>>]
Resizing(e, l, s) == [st |-> "Resizing", edges |-> e, loc |-> l, size |-> s]
WaitingForLastCommit(e, l, s) ==
    [st |-> "WaitingForLastCommit", edges |-> e, loc |-> l, size |-> s]

\* The pointer's grab slot.  focus is start_data.focus.is_some().
NoGrab == [kind |-> "none", window |-> 0, edges |-> "None", start |-> Origin,
           initial_window_loc |-> Origin, initial_window_size |-> <<0, 0>>,
           last_window_size |-> <<0, 0>>, button_used |-> 0, focus |-> FALSE]

VARIABLES
    kind,           \* underlying surface kind of each window
    hints,          \* advertised [min, max] size of each surface
    alive,          \* IsAlive of the window's surface
    wl_surface,     \* the window currently has a wl_surface
    windows,        \* the registry (Pinnacle::windows): surfaces with a window
    dups,           \* further windows of the registry that wrap the surface
    floating,       \* window_state.is_floating()
    fullscreen,     \* window_state.is_fullscreen()
    offscreen_elem_id, \* the window's state holds Some offscreen element id
    space,          \* Space mapping: location or NoLoc
    geometry,       \* window.geometry().size
    x11_loc,        \* X11Surface::geometry().loc of a foreign surface
    mapped,         \* X11Surface::is_mapped()
    z_index_stack,  \* Pinnacle::z_index_stack, bottom first
    resize_state,   \* per-surface ResizeSurfaceState
    grab,           \* the pointer's active grab
    pointer,        \* pointer.current_location(), half pixels
    pressed,        \* handle.current_pressed()
    aborted,        \* a panic (expect / clamp assertion) ended the process
    last            \* the handler that ran last and its effects

vars == <<kind, hints, alive, wl_surface, windows, dups, floating, fullscreen,
          offscreen_elem_id, space, geometry,
          x11_loc, mapped, z_index_stack, resize_state, grab, pointer,
          pressed, aborted, last>>

winvars == <<kind, hints, alive, wl_surface, windows, dups, floating,
             fullscreen,
             offscreen_elem_id, space, mapped, z_index_stack>>

\* Effects of a handler: edges is the edge an accepted resize request asked
\* for, pre is the resize-commit state name it found (commit
\* and grab release only), again says that a commit follows a processed
\* commit of the same surface with the same geometry size, rule the answer
\* of window_rule_state.new_request ("-" when it was not called), req the
\* fields <<x, y, w, h>> of a configure request, active the windows that
\* were on an active tag when the stacking order was pushed and order the
\* order pushed (bottom first), cand the unclamped size a motion computed, sent
\* the configures sent, floating_size / floating_loc / cursor the values
\* written to these fields (NoSize, NoLoc, "-" when not written), focus / xwm /
\* selection the keyboard focus, the window manager instance and the selection
\* target of a selection access query (ok is then the answer), wins / layers /
\* transaction the windows argument, the layer map and the layout transaction
\* of a render composition (active: the windows on an active tag),
\* fullscreen_and_up / rest its two window groups and elements the list it
\* returned, setup / outputs the setup list and the enabled outputs of a
\* layout pass and calls the locations it set, in order (ok: the pass ended).
NoOp == [op |-> "init", w |-> 0, ok |-> FALSE, edges |-> "-", pre |-> "-",
         again |-> FALSE, rule |-> "-", req |-> <<>>, active |-> {},
         order |-> <<>>, cand |-> NoSize,
         sent |-> {}, floating_size |-> NoSize, floating_loc |-> NoLoc,
         cursor |-> "-", focus |-> <<>>, xwm |-> 0, selection |-> "-",
         wins |-> <<>>, layers |-> <<>>, transaction |-> <<>>,
         fullscreen_and_up |-> <<>>, rest |-> <<>>, elements |-> <<>>,
         setup |-> <<>>, outputs |-> <<>>, calls |-> <<>>, requests |-> {}]

\* toplevel.send_pending_configure(): the resizing flag and the size of the
\* pending state (NoSize: the size the pending state already had).
XdgConfigure(w, r, s) ==
    [to |-> w, proto |-> "xdg", resizing |-> r, loc |-> NoLoc, size |-> s]
\* X11Surface::configure(Rectangle)
X11Configure(w, l, s) ==
    [to |-> w, proto |-> "x11", resizing |-> FALSE, loc |-> l, size |-> s]

\* ------------------------------------------------------------ pure helpers
\* Point<f64>::to_i32_round on one coordinate given in half pixels
\* (f64::round rounds half-way cases away from zero).
to_i32_round(n) == IF n >= 0 THEN (n + 1) \div 2 ELSE -(((-n) + 1) \div 2)

\* delta = (event.location - start_data.location).to_i32_round()
Delta(loc, start) ==
    <<to_i32_round(loc[1] - start[1]), to_i32_round(loc[2] - start[2])>>

\* NewWindowSize taking the height of the top edges from the horizontal
\* delta.
NewWindowSize_cross(edges, initial, delta) ==
    LET w0 == initial[1]
        h0 == initial[2]
        w1 == IF edges \in {"Left", "TopLeft", "BottomLeft"}
              THEN w0 - delta[1] ELSE w0
        w2 == IF edges \in {"Right", "TopRight", "BottomRight"}
              THEN w0 + delta[1] ELSE w1
        h1 == IF edges \in {"Top", "TopRight", "TopLeft"}
              THEN h0 - delta[1] ELSE h0
        h2 == IF edges \in {"Bottom", "BottomRight", "BottomLeft"}
              THEN h0 + delta[2] ELSE h1
    IN  <<w2, h2>>

\* NewWindowSize with the sign of the left-edge delta flipped.
NewWindowSize_mut(edges, initial, delta) ==
    LET w0 == initial[1]
        h0 == initial[2]
        w1 == IF edges \in {"Left", "TopLeft", "BottomLeft"}
              THEN w0 + delta[1] ELSE w0
        w2 == IF edges \in {"Right", "TopRight", "BottomRight"}
              THEN w0 + delta[1] ELSE w1
        h1 == IF edges \in {"Top", "TopRight", "TopLeft"}
              THEN h0 - delta[2] ELSE h0
        h2 == IF edges \in {"Bottom", "BottomRight", "BottomLeft"}
              THEN h0 + delta[2] ELSE h1
    IN  <<w2, h2>>

\* Candidate size of ResizeSurfaceGrab::motion, before clamping.
NewWindowSize(edges, initial, delta) ==
    LET w0 == initial[1]
        h0 == initial[2]
        w1 == IF edges \in {"Left", "TopLeft", "BottomLeft"}
              THEN w0 - delta[1] ELSE w0
        w2 == IF edges \in {"Right", "TopRight", "BottomRight"}
              THEN w0 + delta[1] ELSE w1
        h1 == IF edges \in {"Top", "TopRight", "TopLeft"}
              THEN h0 - delta[2] ELSE h0
        h2 == IF edges \in {"Bottom", "BottomRight", "BottomLeft"}
              THEN h0 + delta[2] ELSE h1
    IN  <<w2, h2>>

Max(a, b) == IF a >= b THEN a ELSE b

MinBound(min) == <<Max(1, min[1]), Max(1, min[2])>>
MaxBound(max) == <<IF max[1] # 0 THEN max[1] ELSE I32Max,
                   IF max[2] # 0 THEN max[2] ELSE I32Max>>

\* i32::clamp asserts min <= max and panics otherwise.
ClampPanics(min, max) ==
    \/ MinBound(min)[1] > MaxBound(max)[1]
    \/ MinBound(min)[2] > MaxBound(max)[2]

\* clamp without the upper bound.
clamp_mut(v, lo, hi) == IF v < lo THEN lo ELSE v

clamp(v, lo, hi) == IF v < lo THEN lo ELSE IF v > hi THEN hi ELSE v

ClampSize(cand, min, max) ==
    <<clamp(cand[1], MinBound(min)[1], MaxBound(max)[1]),
      clamp(cand[2], MinBound(min)[2], MaxBound(max)[2])>>

cursor_icon(edges) == IF edges = "None" THEN "Default" ELSE edges

\* Pinnacle::window_for_surface: the registry entry owning the surface.
window_for_surface(w) == w \in windows /\ wl_surface[w]

\* ungrab without the early return for override-redirect windows.
ungrab_mut(g, rs) ==
    IF g.kind = "none" \/ ~alive[g.window] THEN rs
    ELSE IF kind[g.window] # "wayland" /\ ~wl_surface[g.window] THEN rs
    ELSE [rs EXCEPT ![g.window] = WaitingForLastCommit(
             g.edges, g.initial_window_loc, g.initial_window_size)]

\* ---------------------------------------------------- ResizeSurfaceGrab
\* ResizeSurfaceGrab::ungrab, as its effect on the resize-commit states rs.
ungrab(g, rs) ==
    IF g.kind = "none" \/ ~alive[g.window] THEN rs
    ELSE IF kind[g.window] = "wayland"
    THEN [rs EXCEPT ![g.window] = WaitingForLastCommit(
             g.edges, g.initial_window_loc, g.initial_window_size)]
    ELSE IF kind[g.window] = "x11_or" \/ ~wl_surface[g.window] THEN rs
    ELSE [rs EXCEPT ![g.window] = WaitingForLastCommit(
             g.edges, g.initial_window_loc, g.initial_window_size)]

\* The toplevel branch of ungrab clears the resizing flag and sends the last
\* size.
ungrab_sent(g) ==
    IF g.kind # "none" /\ alive[g.window] /\ kind[g.window] = "wayland"
    THEN {XdgConfigure(g.window, FALSE, g.last_window_size)}
    ELSE {}

\* ResizeSurfaceGrab::start: the Resizing state it records.
start(w, edges, rs) ==
    [rs EXCEPT ![w] = Resizing(edges, space[w], geometry[w])]

\* ResizeSurfaceGrab::start followed by pointer.set_grab: start records
\* Resizing on the surface, then the pointer unsets the grab it replaces
\* (PointerGrab::unset -> ungrab) and installs the new one.
StartAndSetGrab(w, edges, button_used, start_loc, hasFocus, rec) ==
    /\ resize_state' = ungrab(grab, start(w, edges, resize_state))
    /\ grab' = [kind |-> "resize", window |-> w, edges |-> edges,
                start |-> start_loc, initial_window_loc |-> space[w],
                initial_window_size |-> geometry[w],
                last_window_size |-> geometry[w],
                button_used |-> button_used, focus |-> hasFocus]
    /\ last' = [rec EXCEPT !.ok = TRUE, !.edges = edges,
                           !.sent = rec.sent \cup ungrab_sent(grab)]

Refused(op, w) ==
    /\ last' = [NoOp EXCEPT !.op = op, !.w = w]
    /\ UNCHANGED <<resize_state, grab, aborted>>

Panic(op, w) ==
    /\ aborted' = TRUE
    /\ last' = [NoOp EXCEPT !.op = op, !.w = w]

\* The request sets the Resizing flag on a native toplevel and sends the
\* pending configure.
RequestSent(w) ==
    IF kind[w] = "wayland" THEN {XdgConfigure(w, TRUE, NoSize)} ELSE {}

\* RequestRefused without the floating check.
RequestRefused_mut(w) == ~window_for_surface(w)

\* The early returns of a resize request: the surface has no window, or the
\* window is not floating.
RequestRefused(w) == ~window_for_surface(w) \/ ~floating[w]

\* State::resize_request_server
resize_request_server(w, edges, button_used) ==
    /\ ~aborted
    /\ UNCHANGED <<winvars, geometry, x11_loc, pointer, pressed>>
    /\ IF RequestRefused(w)
       THEN Refused("resize_request_server", w)
       ELSE IF space[w] = NoLoc
       THEN /\ Panic("resize_request_server", w)
            /\ UNCHANGED <<resize_state, grab>>
       ELSE /\ StartAndSetGrab(w, edges, button_used, pointer, FALSE,
                   [NoOp EXCEPT !.op = "resize_request_server", !.w = w,
                                !.sent = RequestSent(w),
                                !.cursor = cursor_icon(edges)])
            /\ UNCHANGED aborted

\* State::resize_request_client.  pointer_grab_start_data is outside the
\* modelled sources: hasStart says whether it returned start data, start_loc
\* is the pointer location that data carries.
resize_request_client(w, edges, button_used, hasStart, start_loc) ==
    /\ ~aborted
    /\ UNCHANGED <<winvars, geometry, x11_loc, pointer, pressed>>
    /\ IF ~hasStart \/ RequestRefused(w)
       THEN Refused("resize_request_client", w)
       ELSE IF space[w] = NoLoc
       THEN /\ Panic("resize_request_client", w)
            /\ UNCHANGED <<resize_state, grab>>
       ELSE /\ StartAndSetGrab(w, edges, button_used, start_loc, TRUE,
                   [NoOp EXCEPT !.op = "resize_request_client", !.w = w,
                                !.sent = RequestSent(w)])
            /\ UNCHANGED aborted

\* PointerInternal::with_grab discards a grab whose start_data.focus is no
\* longer alive (the grab's unset runs, the slot is emptied) before the event
\* reaches it; start_data.focus is the surface of the grabbed window.
FocusDead(g) == g.kind # "none" /\ g.focus /\ ~alive[g.window]

DiscardGrab(op) ==
    /\ resize_state' = ungrab(grab, resize_state)
    /\ grab' = NoGrab
    /\ last' = [NoOp EXCEPT !.op = op, !.w = grab.window,
                            !.sent = ungrab_sent(grab)]

\* UnsetGrab without the cursor reset.
UnsetGrab_mut(op) ==
    /\ resize_state' = ungrab(grab, resize_state)
    /\ grab' = NoGrab
    /\ last' = [NoOp EXCEPT !.op = op, !.w = grab.window, !.ok = TRUE,
                            !.pre = resize_state[grab.window].st,
                            !.sent = ungrab_sent(grab)]

\* The cursor is reset, then handle.unset_grab(self, ...): PointerGrab::unset
\* runs and the slot is emptied.
UnsetGrab(op) ==
    /\ resize_state' = ungrab(grab, resize_state)
    /\ grab' = NoGrab
    /\ last' = [NoOp EXCEPT !.op = op, !.w = grab.window, !.ok = TRUE,
                            !.pre = resize_state[grab.window].st,
                            !.sent = ungrab_sent(grab),
                            !.cursor = "Default"]

\* ResizeSurfaceGrab::motion on a live window.
MotionResize(loc, cap) ==
    LET w == grab.window
        delta == Delta(loc, grab.start)
        cand == NewWindowSize(grab.edges, grab.initial_window_size, delta)
        min == hints[w].min
        max == hints[w].max
        new == ClampSize(cand, min, max)
        rec == [NoOp EXCEPT !.op = "motion_resize", !.w = w, !.cand = cand]
        wrote == [rec EXCEPT !.floating_size = new]
    IN  IF ClampPanics(min, max)
        THEN /\ aborted' = TRUE
             /\ last' = rec
             /\ UNCHANGED <<grab, geometry, x11_loc>>
        ELSE /\ new[1] <= cap /\ new[2] <= cap
             /\ grab' = [grab EXCEPT !.last_window_size = new]
             /\ IF kind[w] = "wayland"
                THEN /\ last' = [wrote EXCEPT !.ok = TRUE,
                                     !.sent = {XdgConfigure(w, TRUE, new)}]
                     /\ UNCHANGED <<geometry, x11_loc, aborted>>
                ELSE IF kind[w] = "x11_or"
                THEN /\ last' = [wrote EXCEPT !.ok = TRUE]
                     /\ UNCHANGED <<geometry, x11_loc, aborted>>
                ELSE IF space[w] = NoLoc
                THEN /\ aborted' = TRUE
                     /\ last' = wrote
                     /\ UNCHANGED <<geometry, x11_loc>>
                ELSE /\ geometry' = [geometry EXCEPT ![w] = new]
                     /\ x11_loc' = [x11_loc EXCEPT ![w] = space[w]]
                     /\ last' = [wrote EXCEPT !.ok = TRUE,
                                     !.sent = {X11Configure(w, space[w], new)}]
                     /\ UNCHANGED aborted

\* A pointer motion event: PointerHandle::motion -> grab.motion.  cap bounds
\* the sizes the model lets a drag reach.
motion(loc, cap) ==
    /\ ~aborted
    /\ pointer' = loc
    /\ UNCHANGED <<winvars, pressed>>
    /\ IF grab.kind = "none"
       THEN /\ last' = [NoOp EXCEPT !.op = "motion"]
            /\ UNCHANGED <<geometry, x11_loc, resize_state, grab, aborted>>
       ELSE IF FocusDead(grab)
       THEN /\ DiscardGrab("motion")
            /\ UNCHANGED <<geometry, x11_loc, aborted>>
       ELSE IF ~alive[grab.window]
       THEN /\ UnsetGrab("motion_dead")
            /\ UNCHANGED <<geometry, x11_loc, aborted>>
       ELSE /\ MotionResize(loc, cap)
            /\ UNCHANGED resize_state

\* TriggerReleased that waits for every button to be released.
TriggerReleased_mut(g, p) == p = {}

\* !handle.current_pressed().contains(&self.button_used)
TriggerReleased(g, p) == g.button_used \notin p

\* A pointer button event: PointerHandle::button -> grab.button.
button(b, down) ==
    /\ ~aborted
    /\ pressed' = IF down THEN pressed \cup {b} ELSE pressed \ {b}
    /\ UNCHANGED <<winvars, geometry, x11_loc, pointer, aborted>>
    /\ IF grab.kind = "none"
       THEN /\ last' = [NoOp EXCEPT !.op = "button"]
            /\ UNCHANGED <<resize_state, grab>>
       ELSE IF FocusDead(grab)
       THEN DiscardGrab("button")
       ELSE IF TriggerReleased(grab, pressed')
       THEN UnsetGrab("release")
       ELSE /\ last' = [NoOp EXCEPT !.op = "button", !.w = grab.window,
                                    !.ok = TRUE]
            /\ UNCHANGED <<resize_state, grab>>

\* on_commit returning every state to Idle.
on_commit_mut(rs) == IF rs.st = "Idle" THEN rs ELSE Idle

\* ----------------------------------------------------- commit correction
\* ResizeSurfaceState::on_commit: the state after the commit.
on_commit(rs) == IF rs.st = "WaitingForLastCommit" THEN Idle ELSE rs

\* NewLoc correcting from the current location instead of the one recorded
\* at grab start.
NewLoc_cur(rs, loc, size) ==
    LET new_x == IF rs.edges \in {"Left", "TopLeft", "BottomLeft"}
                 THEN loc[1] + (rs.size[1] - size[1]) ELSE loc[1]
        new_y == IF rs.edges \in {"Top", "TopLeft", "TopRight"}
                 THEN loc[2] + (rs.size[2] - size[2]) ELSE loc[2]
    IN  <<new_x, new_y>>

\* NewLoc correcting y for the left edges as well.
NewLoc_mut(rs, loc, size) ==
    LET new_x == IF rs.edges \in {"Left", "TopLeft", "BottomLeft"}
                 THEN rs.loc[1] + (rs.size[1] - size[1]) ELSE loc[1]
        new_y == IF rs.edges \in {"Top", "TopLeft", "TopRight", "Left",
                                  "BottomLeft"}
                 THEN rs.loc[2] + (rs.size[2] - size[2]) ELSE loc[2]
    IN  <<new_x, new_y>>

\* The location computed by move_surface_if_resized from the state rs, the
\* current Space location and the committed geometry size.
NewLoc(rs, loc, size) ==
    LET new_x == IF rs.edges \in {"Left", "TopLeft", "BottomLeft"}
                 THEN rs.loc[1] + (rs.size[1] - size[1]) ELSE loc[1]
        new_y == IF rs.edges \in {"Top", "TopLeft", "TopRight"}
                 THEN rs.loc[2] + (rs.size[2] - size[2]) ELSE loc[2]
    IN  <<new_x, new_y>>

\* new_loc.0.is_some() || new_loc.1.is_some()
Remaps(rs) == rs.edges \in {"Left", "TopLeft", "BottomLeft", "Top", "TopRight"}

InCoords(l) == /\ l[1] \in -MaxCoord..MaxCoord
               /\ l[2] \in -MaxCoord..MaxCoord

\* The early returns of move_surface_if_resized, before on_commit runs.
CommitSkipped(w) ==
    \/ ~window_for_surface(w)
    \/ ~floating[w]
    \/ space[w] = NoLoc

\* Pinnacle::move_surface_if_resized, with geo the geometry size after the
\* commit.
move_surface_if_resized(w, geo) ==
    LET rec == [NoOp EXCEPT !.op = "commit", !.w = w,
                            !.pre = resize_state[w].st,
                            !.again = /\ last.op = "commit" /\ last.w = w
                                      /\ last.ok /\ geometry[w] = geo]
    IN  IF CommitSkipped(w) \/ resize_state[w].st = "Idle"
        THEN /\ last' = rec
             /\ UNCHANGED <<space, x11_loc, resize_state>>
        ELSE LET rs == resize_state[w]
                 window_loc == NewLoc(rs, space[w], geo)
             IN  /\ InCoords(window_loc)
                 /\ resize_state' = [resize_state EXCEPT ![w] = on_commit(rs)]
                 /\ space' = IF Remaps(rs)
                             THEN [space EXCEPT ![w] = window_loc] ELSE space
                 /\ x11_loc' = IF Remaps(rs) /\ kind[w] = "x11"
                               THEN [x11_loc EXCEPT ![w] = window_loc]
                               ELSE x11_loc
                 /\ last' = [rec EXCEPT
                        !.ok = TRUE,
                        !.floating_loc = window_loc,
                        !.sent = IF Remaps(rs) /\ kind[w] = "x11"
                                 THEN {X11Configure(w, window_loc, geo)}
                                 ELSE {}]

\* A buffer commit on the surface of w whose geometry size is then c.  The
\* geometry of a foreign surface is the last configured one, so that a
\* commit does not change it.
commit(w, c) ==
    /\ ~aborted
    /\ alive[w] /\ wl_surface[w]
    /\ kind[w] = "wayland" \/ c = geometry[w]
    /\ geometry' = [geometry EXCEPT ![w] = c]
    /\ UNCHANGED <<kind, hints, fullscreen, offscreen_elem_id, dups,
                   alive, wl_surface, windows, floating, mapped,
                   z_index_stack, grab, pointer, pressed, aborted>>
    /\ move_surface_if_resized(w, c)

\* ------------------------------------------------------ window lifecycle
\* The Z-order stack without w.
Without(stack, w) == LET keep(v) == v # w IN SelectSeq(stack, keep)

\* Pinnacle::raise_window: w becomes the top of the Z-order stack, once.
raise_window(stack, w) == Append(Without(stack, w), w)

\* Pinnacle::remove_window: out of the registry, the Space mapping and the
\* Z-order stack.
remove_window(w) ==
    /\ windows' = windows \ {w}
    /\ space' = [space EXCEPT ![w] = NoLoc]
    /\ z_index_stack' = Without(z_index_stack, w)

Lifecycle(op, w) ==
    /\ ~aborted
    /\ last' = [NoOp EXCEPT !.op = op, !.w = w]
    /\ UNCHANGED <<kind, hints, fullscreen, offscreen_elem_id, dups,
                   geometry, x11_loc, grab, pointer, pressed,
                   aborted>>

\* The frame of unmapped_window and destroyed_window; ok says that the
\* registry had a window for the surface.
\* remove_xwayland_window asking for a layout and a redraw whether or not it
\* found a window.
RemovalRequests_mut(found) == {"layout", "redraw"}

\* The requests remove_xwayland_window makes for a window that is on an
\* output: all of them are inside `if let Some(win) = win`.
RemovalRequests(found) ==
    IF found THEN {"snapshot", "layout", "redraw"} ELSE {}

Removal(op, w) ==
    /\ ~aborted
    /\ last' = [NoOp EXCEPT !.op = op, !.w = w, !.ok = w \in windows,
                           !.requests = RemovalRequests(w \in windows)]
    /\ UNCHANGED <<kind, hints, fullscreen, offscreen_elem_id,
                   geometry, x11_loc, grab, pointer, pressed,
                   aborted>>

\* map_window_request marking the surface mapped whatever new_request
\* answers.
MappedByRequest_mut(m, sent) == TRUE

\* if !window_rule_request_sent { set_mapped(true) }: the mapped flag of the
\* surface after the map request, m being the flag before.
MappedByRequest(m, sent) == IF sent THEN m ELSE TRUE

\* The registry keeping one window per surface.
PushWindow_mut(w) == dups

\* self.pinnacle.windows.push(window) of map_window_request: the window is
\* new whether or not the registry already holds one for the surface.
PushWindow(w) ==
    IF w \in windows THEN [dups EXCEPT ![w] = @ + 1] ELSE dups

\* XwmHandler::map_window_request; sent is the answer of
\* window_rule_state.new_request.
map_window_request(w, sent) ==
    /\ ~aborted
    /\ kind[w] \in {"x11", "x11_or"} /\ alive[w]
    /\ ~mapped[w]
    /\ \/ w \notin windows
       \/ w \in windows /\ space[w] = NoLoc /\ dups[w] < MaxDups
    /\ UNCHANGED <<kind, hints, fullscreen, offscreen_elem_id,
                   geometry, x11_loc, grab, pointer, pressed,
                   aborted, alive, wl_surface, floating, space,
                   z_index_stack, resize_state>>
    /\ IF kind[w] = "x11_or"
       THEN /\ last' = [NoOp EXCEPT !.op = "map_window_request", !.w = w]
            /\ UNCHANGED <<windows, dups, mapped>>
       ELSE /\ windows' = windows \cup {w}
            /\ dups' = PushWindow(w)
            /\ mapped' = [mapped EXCEPT ![w] = MappedByRequest(mapped[w], sent)]
            /\ last' = [NoOp EXCEPT !.op = "map_window_request", !.w = w,
                            !.ok = TRUE,
                            !.rule = IF sent THEN "sent" ELSE "not_sent"]

\* The window-rule evaluation dispatched for w completes: the surface is
\* marked mapped.
window_rule_finished(w) ==
    /\ kind[w] = "x11" /\ alive[w] /\ w \in windows /\ ~mapped[w]
    /\ Lifecycle("window_rule_finished", w)
    /\ mapped' = [mapped EXCEPT ![w] = TRUE]
    /\ UNCHANGED <<alive, wl_surface, windows, floating, space,
                   z_index_stack, resize_state>>

\* The foreign surface of w is given its wl_surface; the resize-commit state
\* is user data of that new surface and starts as the default.
x11_surface_associated(w) ==
    /\ kind[w] \in {"x11", "x11_or"} /\ alive[w] /\ ~wl_surface[w]
    /\ w \in windows
    /\ Lifecycle("x11_surface_associated", w)
    /\ wl_surface' = [wl_surface EXCEPT ![w] = TRUE]
    /\ resize_state' = [resize_state EXCEPT ![w] = Idle]
    /\ UNCHANGED <<alive, windows, floating, space, mapped, z_index_stack>>

\* XwmHandler::map_window_notify -> State::map_new_window, which maps the
\* window into the Space at loc and raises it.  The notification follows
\* the mapping of the surface.
map_window_notify(w, loc) ==
    /\ kind[w] = "x11" /\ alive[w] /\ space[w] = NoLoc /\ mapped[w]
    /\ Lifecycle("map_window_notify", w)
    /\ IF w \in windows
       THEN /\ space' = [space EXCEPT ![w] = loc]
            /\ z_index_stack' = raise_window(z_index_stack, w)
       ELSE UNCHANGED <<space, z_index_stack>>
    /\ UNCHANGED <<alive, wl_surface, windows, floating, mapped,
                   resize_state>>

\* The window placed at the origin of the Space.
self_declared_loc_mut(w) == Origin

\* let loc = surface.geometry().loc
self_declared_loc(w) == x11_loc[w]

\* mapped_override_redirect_window without the raise_window call.
mapped_override_redirect_window_mut(w) ==
    /\ kind[w] = "x11_or" /\ alive[w] /\ w \notin windows
    /\ Lifecycle("mapped_override_redirect_window", w)
    /\ windows' = windows \cup {w}
    /\ space' = [space EXCEPT ![w] = self_declared_loc(w)]
    /\ UNCHANGED <<alive, wl_surface, floating, mapped, resize_state,
                   z_index_stack>>

\* XwmHandler::mapped_override_redirect_window: mapped at the surface's own
\* geometry location and raised.
mapped_override_redirect_window(w) ==
    /\ kind[w] = "x11_or" /\ alive[w] /\ w \notin windows
    /\ Lifecycle("mapped_override_redirect_window", w)
    /\ windows' = windows \cup {w}
    /\ space' = [space EXCEPT ![w] = self_declared_loc(w)]
    /\ z_index_stack' = raise_window(z_index_stack, w)
    /\ UNCHANGED <<alive, wl_surface, floating, mapped, resize_state>>

\* State::remove_xwayland_window looking the window up in the Space.
remove_xwayland_window_mut(w) ==
    IF w \in windows /\ space[w] # NoLoc
    THEN remove_window(w) /\ UNCHANGED dups
    ELSE UNCHANGED <<windows, dups, space, z_index_stack>>

\* State::remove_xwayland_window: the first window of the registry that wraps
\* the surface is removed; a further window of the same surface stays in the
\* registry, in neither the Space nor the Z-order stack.
remove_xwayland_window(w) ==
    IF w \in windows
    THEN IF dups[w] = 0
         THEN remove_window(w) /\ UNCHANGED dups
         ELSE /\ dups' = [dups EXCEPT ![w] = @ - 1]
              /\ space' = [space EXCEPT ![w] = NoLoc]
              /\ z_index_stack' = Without(z_index_stack, w)
              /\ UNCHANGED windows
    ELSE UNCHANGED <<windows, dups, space, z_index_stack>>

\* XwmHandler::unmapped_window; the unmapped surface loses its wl_surface.
unmapped_window(w) ==
    /\ kind[w] \in {"x11", "x11_or"} /\ alive[w]
    /\ Removal("unmapped_window", w)
    /\ wl_surface' = [wl_surface EXCEPT ![w] = FALSE]
    /\ mapped' = IF kind[w] = "x11" THEN [mapped EXCEPT ![w] = FALSE]
                 ELSE mapped
    /\ remove_xwayland_window(w)
    /\ UNCHANGED <<alive, floating, resize_state>>

\* XwmHandler::destroyed_window
destroyed_window(w) ==
    /\ kind[w] \in {"x11", "x11_or"} /\ alive[w]
    /\ Removal("destroyed_window", w)
    /\ alive' = [alive EXCEPT ![w] = FALSE]
    /\ wl_surface' = [wl_surface EXCEPT ![w] = FALSE]
    /\ remove_xwayland_window(w)
    /\ UNCHANGED <<floating, mapped, resize_state>>

\* Option<T> of a configure request: <<>> is None, <<v>> is Some(v).
unwrap_or(opt, cur) == IF opt = <<>> THEN cur ELSE opt[1]

\* should_configure refusing a surface that has no window (unwrap_or(false)).
should_configure_deny(w) ==
    IF w \in windows THEN kind[w] = "x11_or" \/ floating[w] ELSE FALSE

\* should_configure granting a registered window only when it is
\* override-redirect.
should_configure_mut(w) ==
    IF w \in windows THEN kind[w] = "x11_or" ELSE TRUE

\* should_configure: a registered window is granted when it is
\* override-redirect or floating, a surface without a window always.
should_configure(w) ==
    IF w \in windows THEN kind[w] = "x11_or" \/ floating[w] ELSE TRUE

\* X11Surface::configure(Rectangle) returns an error for an
\* override-redirect surface (the resize grab avoids the call for that
\* reason); configure_request logs the error.
ConfigureFails(w) == kind[w] = "x11_or"

\* XwmHandler::configure_request.  What the caller of the handler sends to
\* the client afterwards is outside the modelled sources.
configure_request(w, x, y, width, height) ==
    /\ ~aborted
    /\ kind[w] \in {"x11", "x11_or"} /\ alive[w]
    /\ UNCHANGED <<winvars, resize_state, grab, pointer, pressed, aborted>>
    /\ LET geo_loc == <<unwrap_or(x, x11_loc[w][1]),
                        unwrap_or(y, x11_loc[w][2])>>
           geo_size == <<unwrap_or(width, geometry[w][1]),
                         unwrap_or(height, geometry[w][2])>>
           rec == [NoOp EXCEPT !.op = "configure_request", !.w = w,
                               !.ok = should_configure(w),
                               !.req = <<x, y, width, height>>]
       IN  IF should_configure(w) /\ ~ConfigureFails(w)
           THEN /\ x11_loc' = [x11_loc EXCEPT ![w] = geo_loc]
                /\ geometry' = [geometry EXCEPT ![w] = geo_size]
                /\ last' = [rec EXCEPT
                               !.sent = {X11Configure(w, geo_loc, geo_size)}]
           ELSE /\ UNCHANGED <<x11_loc, geometry>>
                /\ last' = rec

\* A mapped window is raised (API, focus change).
raise(w) ==
    /\ w \in windows /\ space[w] # NoLoc
    /\ Lifecycle("raise_window", w)
    /\ z_index_stack' = raise_window(z_index_stack, w)
    /\ UNCHANGED <<alive, wl_surface, windows, floating, space, mapped,
                   resize_state>>

\* The windows of the stack that are foreign, not override-redirect, and on
\* an active tag (on = TRUE) or not (on = FALSE), in stack order.
StackGroup(stack, active, on) ==
    LET keep(v) == kind[v] = "x11" /\ ((v \in active) <=> on)
    IN  SelectSeq(stack, keep)

\* StackingOrder with the windows on an active tag below the others.
StackingOrder_mut(stack, active) ==
    StackGroup(stack, active, TRUE) \o StackGroup(stack, active, FALSE)

\* non_active_windows.chain(active_windows), as handed to
\* update_stacking_order_upwards.
StackingOrder(stack, active) ==
    StackGroup(stack, active, FALSE) \o StackGroup(stack, active, TRUE)

\* Pinnacle::update_xwayland_stacking_order; active are the windows for
\* which is_on_active_tag() holds, hasXwm says that self.xwm is Some.
update_xwayland_stacking_order(active, hasXwm) ==
    /\ ~aborted
    /\ UNCHANGED <<winvars, geometry, x11_loc, resize_state, grab, pointer,
                   pressed, aborted>>
    /\ last' = [NoOp EXCEPT !.op = "update_xwayland_stacking_order",
                            !.ok = hasXwm, !.active = active,
                            !.order = IF hasXwm
                                      THEN StackingOrder(z_index_stack, active)
                                      ELSE <<>>]

\* A native toplevel is mapped: registry, Space and Z-order stack.
map_toplevel(w, loc) ==
    /\ kind[w] = "wayland" /\ alive[w] /\ w \notin windows
    /\ Lifecycle("map_toplevel", w)
    /\ windows' = windows \cup {w}
    /\ space' = [space EXCEPT ![w] = loc]
    /\ z_index_stack' = raise_window(z_index_stack, w)
    /\ UNCHANGED <<alive, wl_surface, floating, mapped, resize_state>>

\* A native toplevel is destroyed.
toplevel_destroyed(w) ==
    /\ kind[w] = "wayland" /\ alive[w]
    /\ Lifecycle("toplevel_destroyed", w)
    /\ alive' = [alive EXCEPT ![w] = FALSE]
    /\ wl_surface' = [wl_surface EXCEPT ![w] = FALSE]
    /\ remove_window(w)
    /\ UNCHANGED <<floating, mapped, resize_state>>

\* The layout mode of a registered window is changed (window rules, API).
set_floating(w, b) ==
    /\ w \in windows /\ floating[w] # b
    /\ Lifecycle("set_floating", w)
    /\ floating' = [floating EXCEPT ![w] = b]
    /\ UNCHANGED <<alive, wl_surface, windows, space, mapped, z_index_stack,
                   resize_state>>

\* ----------------------------------------------------------- specification
NoHints == [min |-> <<0, 0>>, max |-> <<0, 0>>]

InitCommon ==
    /\ kind \in [Wins -> Kinds]
    /\ alive = [w \in Wins |-> TRUE]
    /\ wl_surface = [w \in Wins |-> kind[w] = "wayland"]
    /\ windows = {}
    /\ dups = [w \in DOMAIN kind |-> 0]
    /\ floating = [w \in Wins |-> FALSE]
    /\ fullscreen = [w \in Wins |-> FALSE]
    /\ offscreen_elem_id = [w \in Wins |-> FALSE]
    /\ space = [w \in Wins |-> NoLoc]
    /\ geometry \in [Wins -> Sizes]
    /\ mapped = [w \in Wins |-> FALSE]
    /\ z_index_stack = <<>>
    /\ resize_state = [w \in Wins |-> Idle]
    /\ grab = NoGrab
    /\ pointer = Origin
    /\ pressed = {}
    /\ aborted = FALSE
    /\ last = NoOp

Init ==
    /\ InitCommon
    /\ hints = [w \in Wins |-> NoHints]
    /\ x11_loc = [w \in Wins |-> Origin]

Requests ==
    \/ \E w \in Wins, e \in ReqEdges, b \in ReqButtons :
           resize_request_server(w, e, b)
    \/ \E w \in Wins, e \in ReqEdges, b \in ReqButtons, hs \in BOOLEAN,
          sl \in PtrLocs :
           kind[w] = "wayland" /\ resize_request_client(w, e, b, hs, sl)

Next ==
    \/ Requests
    \/ \E loc \in PtrLocs : motion(loc, MaxSize)
    \/ \E b \in Buttons, down \in BOOLEAN : button(b, down)
    \/ \E w \in Wins, c \in Sizes : commit(w, c)
    \/ \E w \in Wins, sent \in BOOLEAN : map_window_request(w, sent)
    \/ \E w \in Wins : window_rule_finished(w)
    \/ \E w \in Wins : x11_surface_associated(w)
    \/ \E w \in Wins, l \in MapLocs : map_window_notify(w, l)
    \/ \E w \in Wins : mapped_override_redirect_window(w)
    \/ \E w \in Wins : unmapped_window(w)
    \/ \E w \in Wins : destroyed_window(w)
    \/ \E w \in Wins, l \in MapLocs : map_toplevel(w, l)
    \/ \E w \in Wins : toplevel_destroyed(w)
    \/ \E w \in Wins, b \in BOOLEAN : set_floating(w, b)

Spec == Init /\ [][Next]_vars

\* ---------------------------------------------- the motion computation
\* A resize grab has just been accepted on the (mapped, floating) window:
\* every edge, advertised minimum and maximum size, and the scenario of a
\* 200x200 window grabbed at pointer (100,100) with minimum size 50x50.
ExampleSize == <<200, 200>>
ExampleStart == <<200, 200>>
ExamplePtr == <<160, 240>>
ExampleHints == [min |-> <<50, 50>>, max |-> <<0, 0>>]

MotionHints ==
    {[min |-> <<a, MaxHint - a>>, max |-> <<c, MaxHint - c>>] :
        a \in {0, MaxHint}, c \in 0..MaxHint} \cup {NoHints}
MotionPtrLocs == (-MaxDelta..MaxDelta) \X (-MaxDelta..MaxDelta)

\* The Z-order stack once every window has been mapped and raised.
AllRaised ==
    CHOOSE st \in [1..Cardinality(Wins) -> Wins] :
        \A w \in Wins : \E i \in 1..Cardinality(Wins) : st[i] = w

InitMotion ==
    /\ kind \in [Wins -> Kinds]
    /\ alive = [w \in Wins |-> TRUE]
    /\ wl_surface = [w \in Wins |-> TRUE]
    /\ windows = Wins
    /\ dups = [w \in Wins |-> 0]
    /\ floating = [w \in Wins |-> TRUE]
    /\ fullscreen = [w \in Wins |-> FALSE]
    /\ offscreen_elem_id = [w \in Wins |-> FALSE]
    /\ space = [w \in Wins |-> Origin]
    /\ x11_loc = space
    /\ mapped = [w \in Wins |-> kind[w] = "x11"]
    /\ z_index_stack = AllRaised
    /\ pressed = {}
    /\ aborted = FALSE
    /\ \E w \in Wins, e \in AllEdges :
         \/ /\ geometry \in [Wins -> Sizes]
            /\ hints \in [Wins -> MotionHints]
            /\ kind[w] = "wayland" => ~ClampPanics(hints[w].min, hints[w].max)
            /\ pointer = Origin
            /\ resize_state = start(w, e, [v \in Wins |-> Idle])
            /\ grab = [NoGrab EXCEPT !.kind = "resize", !.window = w,
                           !.edges = e, !.start = pointer,
                           !.initial_window_loc = space[w],
                           !.initial_window_size = geometry[w],
                           !.last_window_size = geometry[w],
                           !.button_used = 1]
            /\ last = [NoOp EXCEPT !.op = "resize_request_server", !.w = w,
                           !.ok = TRUE, !.edges = e,
                           !.sent = RequestSent(w),
                           !.cursor = cursor_icon(e)]
         \/ /\ geometry = [v \in Wins |-> ExampleSize]
            /\ hints = [v \in Wins |-> ExampleHints]
            /\ pointer = ExampleStart
            /\ resize_state = start(w, e, [v \in Wins |-> Idle])
            /\ grab = [NoGrab EXCEPT !.kind = "resize", !.window = w,
                           !.edges = e, !.start = pointer,
                           !.initial_window_loc = space[w],
                           !.initial_window_size = geometry[w],
                           !.last_window_size = geometry[w],
                           !.button_used = 1]
            /\ last = [NoOp EXCEPT !.op = "resize_request_server", !.w = w,
                           !.ok = TRUE, !.edges = e,
                           !.sent = RequestSent(w),
                           !.cursor = cursor_icon(e)]

NextMotion ==
    \E loc \in MotionPtrLocs \cup {ExamplePtr} : motion(loc, I32Max)

SpecMotion == InitMotion /\ [][NextMotion]_vars

\* ------------------------------------------------ the commit correction
\* A resize grab has just been accepted on the (mapped, floating) window,
\* for every edge; the pointer then moves, buttons are pressed and released
\* and the client commits.
CommitLocs == {Origin, <<MaxCoord, -MaxCoord>>}

InitCommit ==
    /\ kind \in [Wins -> Kinds]
    /\ hints = [w \in Wins |-> NoHints]
    /\ alive = [w \in Wins |-> TRUE]
    /\ wl_surface = [w \in Wins |-> TRUE]
    /\ windows = Wins
    /\ dups = [w \in Wins |-> 0]
    /\ floating = [w \in Wins |-> TRUE]
    /\ fullscreen = [w \in Wins |-> FALSE]
    /\ offscreen_elem_id = [w \in Wins |-> FALSE]
    /\ space \in [Wins -> CommitLocs]
    /\ x11_loc = space
    /\ mapped = [w \in Wins |-> kind[w] = "x11"]
    /\ z_index_stack = AllRaised
    /\ geometry \in [Wins -> Sizes]
    /\ pointer = Origin
    /\ pressed = {}
    /\ aborted = FALSE
    /\ \E w \in Wins, e \in AllEdges :
         /\ resize_state = start(w, e, [v \in Wins |-> Idle])
         /\ grab = [NoGrab EXCEPT !.kind = "resize", !.window = w,
                        !.edges = e, !.start = pointer,
                        !.initial_window_loc = space[w],
                        !.initial_window_size = geometry[w],
                        !.last_window_size = geometry[w],
                        !.button_used = 1]
         /\ last = [NoOp EXCEPT !.op = "resize_request_server", !.w = w,
                        !.ok = TRUE, !.edges = e,
                        !.sent = RequestSent(w),
                        !.cursor = cursor_icon(e)]

NextCommit ==
    \/ \E loc \in PtrLocs : motion(loc, MaxSize)
    \/ \E b \in Buttons, down \in BOOLEAN : button(b, down)
    \/ \E w \in Wins, c \in Sizes : commit(w, c)

SpecCommit == InitCommit /\ [][NextCommit]_vars

\* --------------------------------------- the foreign-protocol lifecycle
\* Foreign surfaces only, with the self-declared location (50,50) of an
\* override-redirect menu among the initial geometry locations: lifecycle
\* events, configure requests, and the server-initiated resize with its
\* release and commits.
ExampleLoc == <<50, 50>>
X11Locs == {Origin, ExampleLoc}
\* The configure requests <<x, y, w, h>> of the clients: nothing asked, a
\* move along x, a move along y with a new width, and every field.
ConfigureRequests ==
    {<< <<>>, <<>>, <<>>, <<>> >>,
     << <<MaxCoord>>, <<>>, <<>>, <<>> >>,
     << <<>>, <<MaxCoord>>, <<MaxSize>>, <<>> >>,
     << <<MaxCoord>>, <<MaxCoord>>, <<MaxSize>>, <<1>> >>}
X11Sizes == (1..MaxSize) \X (1..MaxSize)

InitXwayland ==
    /\ InitCommon
    /\ \A w \in Wins : kind[w] \in {"x11", "x11_or"}
    /\ hints = [w \in Wins |-> NoHints]
    /\ x11_loc \in [Wins -> X11Locs]

NextXwayland ==
    \/ \E w \in Wins, sent \in BOOLEAN : map_window_request(w, sent)
    \/ \E w \in Wins : window_rule_finished(w)
    \/ \E w \in Wins : x11_surface_associated(w)
    \/ \E w \in Wins, l \in MapLocs : map_window_notify(w, l)
    \/ \E w \in Wins : mapped_override_redirect_window(w)
    \/ \E w \in Wins : unmapped_window(w)
    \/ \E w \in Wins : destroyed_window(w)
    \/ \E w \in Wins, b \in BOOLEAN : set_floating(w, b)
    \/ \E w \in Wins, r \in ConfigureRequests :
           configure_request(w, r[1], r[2], r[3], r[4])
    \/ \E w \in Wins, b \in ReqButtons :
           resize_request_server(w, "TopLeft", b)
    \/ \E b \in ReqButtons, down \in BOOLEAN : button(b, down)
    \/ \E w \in Wins, c \in X11Sizes : commit(w, c)

SpecXwayland == InitXwayland /\ [][NextXwayland]_vars

\* ------------------------------------------------- the Z-order stack
\* Three windows, the first foreign and not override-redirect, that are
\* mapped, raised, unmapped and destroyed, and the stacking order pushed to
\* the foreign window manager.
StackWins == {1, 2, 3}

\* ---------------------------------------------------------------------
\* Selection access (XwmHandler::allow_selection_access)
\* ---------------------------------------------------------------------

\* The window manager instances: Xwayland can be restarted, and a surface
\* keeps the id of the instance that created it.
XwmIds == {1, 2}

\* SelectionTarget
SelectionTargets == {"Clipboard", "Primary"}

\* surface.xwm_id() of the foreign surface of window w.
xwm_id(w) == IF w = 3 THEN 2 ELSE 1

\* WindowElement::x11_surface(): Some for a foreign window, override-redirect
\* or not, None for a native one.
x11_surface(w) == IF kind[w] \in {"x11", "x11_or"} THEN <<w>> ELSE <<>>

\* What seat.get_keyboard().and_then(|kb| kb.current_focus()) can give: no
\* keyboard, no focus, a target that is not a window, or a window.
FocusTargets(ws) ==
    {<<"no_keyboard">>, <<"no_focus">>, <<"Popup">>, <<"LayerSurface">>}
        \cup {<<"Window", w>> : w \in ws}

\* The answer when every focused foreign window is let through, whichever
\* instance asks.
AllowSelection_mut(focus, xwm) ==
    /\ focus[1] = "Window"
    /\ x11_surface(focus[2]) # <<>>

\* The closure of allow_selection_access: the focus is a window, the window
\* has a foreign surface, and the surface belongs to the instance asking.
AllowSelection(focus, xwm) ==
    IF focus[1] = "Window"
    THEN LET surface == x11_surface(focus[2])
         IN  IF surface # <<>> THEN xwm_id(surface[1]) = xwm ELSE FALSE
    ELSE FALSE

\* XwmHandler::allow_selection_access(xwm, _selection) with the keyboard
\* focus found on the seat.
allow_selection_access(focus, xwm, selection) ==
    /\ ~aborted
    /\ UNCHANGED <<winvars, geometry, x11_loc, resize_state, grab, pointer,
                   pressed, aborted>>
    /\ last' = [NoOp EXCEPT !.op = "allow_selection_access",
                            !.ok = AllowSelection(focus, xwm),
                            !.focus = focus, !.xwm = xwm,
                            !.selection = selection]


InitStacking ==
    /\ kind \in [StackWins -> Kinds]
    /\ kind[1] = "x11" /\ kind[2] \in {"x11", "wayland"}
    /\ hints = [w \in StackWins |-> NoHints]
    /\ alive = [w \in StackWins |-> TRUE]
    /\ wl_surface = [w \in StackWins |-> kind[w] = "wayland"]
    /\ windows = {}
    /\ dups = [w \in DOMAIN kind |-> 0]
    /\ floating = [w \in StackWins |-> FALSE]
    /\ fullscreen = [w \in StackWins |-> FALSE]
    /\ offscreen_elem_id = [w \in StackWins |-> FALSE]
    /\ space = [w \in StackWins |-> NoLoc]
    /\ geometry = [w \in StackWins |-> <<1, 1>>]
    /\ x11_loc = [w \in StackWins |-> Origin]
    /\ mapped = [w \in StackWins |-> FALSE]
    /\ z_index_stack = <<>>
    /\ resize_state = [w \in StackWins |-> Idle]
    /\ grab = NoGrab
    /\ pointer = Origin
    /\ pressed = {}
    /\ aborted = FALSE
    /\ last = NoOp

NextStacking ==
    \/ \E w \in StackWins : map_window_request(w, FALSE)
    \/ \E w \in StackWins, l \in MapLocs : map_window_notify(w, l)
    \/ \E w \in StackWins : mapped_override_redirect_window(w)
    \/ \E w \in StackWins : unmapped_window(w)
    \/ \E w \in StackWins : destroyed_window(w)
    \/ \E w \in StackWins, l \in MapLocs : map_toplevel(w, l)
    \/ \E w \in StackWins : toplevel_destroyed(w)
    \/ \E w \in StackWins : raise(w)
    \/ \E active \in SUBSET StackWins, hasXwm \in BOOLEAN :
           update_xwayland_stacking_order(active, hasXwm)

SpecStacking == InitStacking /\ [][NextStacking]_vars

\* The selection specification: the windows of the stacking specification
\* come and go, and a window manager instance asks for selection access
\* while the keyboard focus is on any target the seat can hold.
NextSelection ==
    \/ \E w \in StackWins : map_window_request(w, FALSE)
    \/ \E w \in StackWins, l \in MapLocs : map_window_notify(w, l)
    \/ \E w \in StackWins : mapped_override_redirect_window(w)
    \/ \E w \in StackWins : unmapped_window(w)
    \/ \E w \in StackWins, l \in MapLocs : map_toplevel(w, l)
    \/ \E w \in StackWins : toplevel_destroyed(w)
    \/ \E focus \in FocusTargets(windows), xwm \in XwmIds,
          selection \in SelectionTargets :
           allow_selection_access(focus, xwm, selection)

SpecSelection == InitStacking /\ [][NextSelection]_vars

\* ---------------------------------------------------------------------
\* Render composition (render.rs)
\* ---------------------------------------------------------------------

\* The windows of the render specification.
RenderWins == {1, 2, 3, 4, 5}

\* Render elements: of a window's surface tree (w the window, i the index in
\* the tree), of a layer surface (layer its layer, i the surface), and of a
\* layout transaction snapshot (i the snapshot).
WindowElem(w, i) == [el |-> "window", layer |-> "-", w |-> w, i |-> i]
LayerElem(layer, i) == [el |-> "layer", layer |-> layer, w |-> 0, i |-> i]
SnapshotElem(i) == [el |-> "snapshot", layer |-> "-", w |-> 0, i |-> i]

\* Iterator::rev
Reverse(s) == [i \in 1..Len(s) |-> s[Len(s) + 1 - i]]

\* Iterator::flatten over a vector of vectors.
RECURSIVE Flatten(_)
Flatten(ss) == IF ss = <<>> THEN <<>> ELSE Head(ss) \o Flatten(Tail(ss))

\* How many elements the surface tree of window w has: none while the
\* surface has no buffer, one for a bare toplevel, more with subsurfaces.
NumElems(w) == IF w = 4 THEN 0 ELSE IF w = 2 THEN 2 ELSE 1

\* WindowElement::render_elements
render_elements(w) == [i \in 1..NumElems(w) |-> WindowElem(w, i)]

\* layer_render_elements for one layer: the surfaces of the layer map in
\* reverse order, one element each, those of the given layer.
LayerBand(layers, layer) ==
    LET all == Reverse([k \in 1..Len(layers) |-> LayerElem(layers[k], k)])
        keep(e) == e.layer = layer
    IN  SelectSeq(all, keep)

\* The split index taken at the first fullscreen window of the reversed
\* list instead of the last.
last_fullscreen_split_at_mut(r) ==
    LET fs == {i \in 1..Len(r) : fullscreen[r[i]]}
    IN  IF fs = {} THEN 0 ELSE CHOOSE i \in fs : \A j \in fs : i <= j

\* last_fullscreen_split_at after the map closure has run over the reversed
\* windows r: i + 1 for the last i (from 0) whose window is fullscreen.
last_fullscreen_split_at(r) ==
    LET fs == {i \in 1..Len(r) : fullscreen[r[i]]}
    IN  IF fs = {} THEN 0 ELSE CHOOSE i \in fs : \A j \in fs : i >= j

\* window_render_elements: the pair (fullscreen_and_up, rest).
window_render_elements(wins) ==
    LET r == Reverse(wins)
        at == last_fullscreen_split_at(r)
    IN  <<Flatten([i \in 1..at |-> render_elements(r[i])]),
          Flatten([i \in 1..(Len(r) - at) |-> render_elements(r[at + i])])>>

\* LayoutTransaction::render_elements: the two lists of snapshot elements
\* the transaction holds.
ts_render_elements(ts) == <<ts.fs_and_up, ts.under_fs>>

\* The composition with the top layer in front of the fullscreen-and-up
\* group.
Compose_top(overlay, fs_and_up, top, rest, bottom, background) ==
    overlay \o top \o fs_and_up \o rest \o bottom \o background

\* The composition with the overlay layer behind the fullscreen-and-up
\* group.
Compose_overlay(overlay, fs_and_up, top, rest, bottom, background) ==
    fs_and_up \o overlay \o top \o rest \o bottom \o background

\* The six extend calls of output_render_elements.
Compose(overlay, fs_and_up, top, rest, bottom, background) ==
    overlay \o fs_and_up \o top \o rest \o bottom \o background

\* windows.iter().filter(|win| win.is_on_active_tag())
LiveWindows(wins, active) ==
    LET is_on_active_tag(w) == w \in active
    IN  SelectSeq(wins, is_on_active_tag)

\* The two window groups taken from the live windows whether or not a
\* layout transaction is in flight.
WindowGroups_live(wins, active, ts) ==
    window_render_elements(LiveWindows(wins, active))

\* The two window groups of output_render_elements: those of the layout
\* transaction if there is one, else those of the windows on an active tag.
WindowGroups(wins, active, ts) ==
    IF ts # <<>> THEN ts_render_elements(ts[1])
    ELSE window_render_elements(LiveWindows(wins, active))

\* output_render_elements(output, renderer, space, windows): layers is the
\* layer map of the output, ts its layout transaction (<<>>: None), active
\* the windows for which is_on_active_tag() holds.  The map closure of
\* window_render_elements takes the offscreen element id of every window it
\* is run on.
output_render_elements(wins, active, layers, ts) ==
    /\ ~aborted
    /\ LET live == LiveWindows(wins, active)
           groups == WindowGroups(wins, active, ts)
       IN  /\ offscreen_elem_id' =
                 IF ts # <<>> THEN offscreen_elem_id
                 ELSE [w \in DOMAIN offscreen_elem_id |->
                         IF \E i \in 1..Len(live) : live[i] = w
                         THEN FALSE ELSE offscreen_elem_id[w]]
           /\ last' = [NoOp EXCEPT
                 !.op = "output_render_elements", !.wins = wins,
                 !.active = active, !.layers = layers, !.transaction = ts,
                 !.fullscreen_and_up = groups[1], !.rest = groups[2],
                 !.elements = Compose(LayerBand(layers, "Overlay"), groups[1],
                                      LayerBand(layers, "Top"), groups[2],
                                      LayerBand(layers, "Bottom"),
                                      LayerBand(layers, "Background"))]
    /\ UNCHANGED <<kind, hints, alive, wl_surface, windows, dups, floating,
                   fullscreen, space, mapped, z_index_stack, geometry,
                   x11_loc, resize_state, grab, pointer, pressed, aborted>>

\* The body shared by fullscreen_request and unfullscreen_request: the
\* window of the surface is looked up and its fullscreen flag set to b.
set_fullscreen(w, b) ==
    /\ ~aborted
    /\ IF window_for_surface(w)
       THEN fullscreen' = [fullscreen EXCEPT ![w] = b]
       ELSE UNCHANGED fullscreen
    /\ last' = [NoOp EXCEPT !.op = IF b THEN "fullscreen_request"
                                  ELSE "unfullscreen_request",
                            !.w = w, !.ok = window_for_surface(w)]
    /\ UNCHANGED <<kind, hints, alive, wl_surface, windows, dups, floating,
                   offscreen_elem_id, space, mapped, z_index_stack, geometry,
                   x11_loc, resize_state, grab, pointer, pressed, aborted>>

\* XwmHandler::fullscreen_request
fullscreen_request(w) == set_fullscreen(w, TRUE)

\* XwmHandler::unfullscreen_request
unfullscreen_request(w) == set_fullscreen(w, FALSE)

\* The render specification: five mapped foreign windows, fullscreen
\* requests, and render compositions over every input below.  An offscreen
\* element id may have been left in the state of the first three windows by
\* an earlier offscreen render, and the fifth window may have asked for its
\* map without being mapped yet: it is in the registry and not in the Space.
RenderOrders == {<<1, 2, 3, 4, 5>>, <<2, 5, 1, 4, 3>>}

ActiveSets == {RenderWins, RenderWins \ {1}, {2, 3}, {}}

LayerMaps ==
    {<<>>, <<"Background", "Overlay">>,
     <<"Overlay", "Top", "Background", "Bottom", "Overlay">>}

Transactions ==
    {<<>>,
     <<[fs_and_up |-> <<>>, under_fs |-> <<SnapshotElem(1)>>]>>,
     <<[fs_and_up |-> <<SnapshotElem(1)>>,
        under_fs |-> <<SnapshotElem(2), SnapshotElem(3)>>]>>}

InitRender ==
    /\ kind = [w \in RenderWins |-> "x11"]
    /\ hints = [w \in RenderWins |-> NoHints]
    /\ alive = [w \in RenderWins |-> TRUE]
    /\ wl_surface = [w \in RenderWins |-> TRUE]
    /\ windows = RenderWins
    /\ dups = [w \in DOMAIN kind |-> 0]
    /\ floating = [w \in RenderWins |-> FALSE]
    /\ fullscreen = [w \in RenderWins |-> FALSE]
    /\ offscreen_elem_id \in {[w \in RenderWins |-> FALSE],
                              [w \in RenderWins |-> w <= 3]}
    /\ mapped \in {[w \in RenderWins |-> TRUE],
                   [w \in RenderWins |-> w # 5]}
    /\ space = [w \in RenderWins |-> IF mapped[w] THEN Origin ELSE NoLoc]
    /\ geometry = [w \in RenderWins |-> <<1, 1>>]
    /\ x11_loc = [w \in RenderWins |-> Origin]
    /\ z_index_stack = IF mapped[5] THEN <<1, 2, 3, 4, 5>>
                       ELSE <<1, 2, 3, 4>>
    /\ resize_state = [w \in RenderWins |-> Idle]
    /\ grab = NoGrab
    /\ pointer = Origin
    /\ pressed = {}
    /\ aborted = FALSE
    /\ last = NoOp

NextRender ==
    \/ \E w \in RenderWins : fullscreen_request(w)
    \/ \E w \in RenderWins : unfullscreen_request(w)
    \/ \E wins \in RenderOrders, active \in ActiveSets, layers \in LayerMaps,
          ts \in Transactions :
           output_render_elements(wins, active, layers, ts)

SpecRender == InitRender /\ [][NextRender]_vars

\* ---------------------------------------------------------------------
\* Output layout (api/rust/src/output.rs, Output::setup_locs)
\* ---------------------------------------------------------------------

\* The names of the outputs that can be connected.
OutputNames == {"A", "B", "C"}

\* props().logical_width / logical_height of an output.
LogicalSize(o) ==
    IF o = "A" THEN <<2, 1>> ELSE IF o = "B" THEN <<1, 2>> ELSE <<2, 2>>

\* Rust's integer division, which truncates toward zero.
TruncDiv(a, b) == IF a >= 0 THEN a \div b ELSE -((-a) \div b)

\* An entry (OutputId, OutputLoc) of the setup list.
PointEntry(id, x, y) ==
    [id |-> id, kind |-> "Point", x |-> x, y |-> y, rel |-> "-",
     alignment |-> "-"]
RelativeToEntry(id, rel, alignment) ==
    [id |-> id, kind |-> "RelativeTo", x |-> 0, y |-> 0, rel |-> rel,
     alignment |-> alignment]

\* OutputHandle::set_loc_adj_to: the location given to an output of size
\* self next to an output of size other at other_loc.
AdjLoc(self, other_loc, other, alignment) ==
    LET other_x == other_loc[1]
        other_y == other_loc[2]
        other_width == other[1]
        other_height == other[2]
        self_width == self[1]
        self_height == self[2]
        top == {"TopAlignLeft", "TopAlignCenter", "TopAlignRight"}
        bottom == {"BottomAlignLeft", "BottomAlignCenter", "BottomAlignRight"}
        left == {"LeftAlignTop", "LeftAlignCenter", "LeftAlignBottom"}
    IN  IF alignment \in top \cup bottom
        THEN <<IF alignment \in {"TopAlignLeft", "BottomAlignLeft"}
               THEN other_x
               ELSE IF alignment \in {"TopAlignCenter", "BottomAlignCenter"}
               THEN other_x + TruncDiv(other_width - self_width, 2)
               ELSE other_x + (other_width - self_width),
               IF alignment \in top THEN other_y - self_height
               ELSE other_y + other_height>>
        ELSE <<IF alignment \in left THEN other_x - self_width
               ELSE other_x + other_width,
               IF alignment \in {"LeftAlignTop", "RightAlignTop"}
               THEN other_y
               ELSE IF alignment \in {"LeftAlignCenter", "RightAlignCenter"}
               THEN other_y + TruncDiv(other_height - self_height, 2)
               ELSE other_y + (other_height - self_height)>>

\* The pass before any output is placed: loc the locations set so far,
\* placed the placed_outputs vector, rm rightmost_output_and_x (<<>>: None),
\* calls the set_location calls made, finished whether the while loop ended.
NoPass ==
    [loc |-> [o \in OutputNames |-> <<0, 0>>], placed |-> <<>>, rm |-> <<>>,
     calls |-> <<>>, finished |-> TRUE]

IsPlaced(ps, o) == \E i \in 1..Len(ps.placed) : ps.placed[i] = o

\* rightmost_output_and_x following the output placed last, wherever it is.
Rightmost_mut(rm, o, x) == <<o, x + LogicalSize(o)[1]>>

\* The update of rightmost_output_and_x after output o was placed at x.
Rightmost(rm, o, x) ==
    IF rm = <<>> \/ x + LogicalSize(o)[1] > rm[2]
    THEN <<o, x + LogicalSize(o)[1]>>
    ELSE rm

\* set_location / set_loc_adj_to on output o, placed_outputs.push and the
\* update of the rightmost output.
Place(ps, o, xy) ==
    [ps EXCEPT !.loc = [ps.loc EXCEPT ![o] = xy],
               !.placed = Append(ps.placed, o),
               !.rm = Rightmost(ps.rm, o, xy[1]),
               !.calls = Append(ps.calls, <<o, xy[1], xy[2]>>)]

\* setup.iter().find(|(op_id, _)| op_id.matches(output)): the index of the
\* first entry for output o, 0 if there is none.
FirstEntry(setup, o) ==
    LET is == {i \in 1..Len(setup) : setup[i].id = o}
    IN  IF is = {} THEN 0 ELSE CHOOSE i \in is : \A j \in is : i <= j

\* The first loop: the outputs whose first entry is a Point.
RECURSIVE PlacePoints(_, _, _)
PlacePoints(ps, outs, setup) ==
    IF outs = <<>> THEN ps
    ELSE LET o == Head(outs)
             i == FirstEntry(setup, o)
         IN  IF i # 0 /\ setup[i].kind = "Point"
             THEN PlacePoints(Place(ps, o, <<setup[i].x, setup[i].y>>),
                              Tail(outs), setup)
             ELSE PlacePoints(ps, Tail(outs), setup)

\* The find_map of the while loop without the test that the output is not
\* placed yet.
RelativeCandidate_mut(ps, outs, setup) ==
    LET is == {i \in 1..Len(setup) :
                 /\ \E k \in 1..Len(outs) : outs[k] = setup[i].id
                 /\ setup[i].kind = "RelativeTo"
                 /\ IsPlaced(ps, setup[i].rel)}
    IN  IF is = {} THEN 0 ELSE CHOOSE i \in is : \A j \in is : i <= j

\* The find_map of the while loop: the index of the first entry of the setup
\* that names an enabled output not placed yet and places it relative to an
\* output that is placed, 0 if there is none.
RelativeCandidate(ps, outs, setup) ==
    LET is == {i \in 1..Len(setup) :
                 /\ \E k \in 1..Len(outs) : outs[k] = setup[i].id
                 /\ ~IsPlaced(ps, setup[i].id)
                 /\ setup[i].kind = "RelativeTo"
                 /\ IsPlaced(ps, setup[i].rel)}
    IN  IF is = {} THEN 0 ELSE CHOOSE i \in is : \A j \in is : i <= j

\* The while loop; fuel bounds the iterations the model follows, and a loop
\* that is still going when it runs out is reported as not finished.
RECURSIVE PlaceRelative(_, _, _, _)
PlaceRelative(ps, outs, setup, fuel) ==
    LET i == RelativeCandidate(ps, outs, setup)
    IN  IF i = 0 THEN ps
        ELSE IF fuel = 0 THEN [ps EXCEPT !.finished = FALSE]
        ELSE LET e == setup[i]
                 xy == AdjLoc(LogicalSize(e.id), ps.loc[e.rel],
                              LogicalSize(e.rel), e.alignment)
             IN  PlaceRelative(Place(ps, e.id, xy), outs, setup, fuel - 1)

\* The last loop, over the outputs that were not placed when it started:
\* right of the rightmost output, or at (0, 0) when there is none.
RECURSIVE PlaceRemaining(_, _)
PlaceRemaining(ps, rest) ==
    IF rest = <<>> THEN ps
    ELSE LET o == Head(rest)
             xy == IF ps.rm # <<>>
                   THEN AdjLoc(LogicalSize(o), ps.loc[ps.rm[1]],
                               LogicalSize(ps.rm[1]), "RightAlignTop")
                   ELSE <<0, 0>>
         IN  PlaceRemaining(Place(ps, o, xy), Tail(rest))

\* The closure layout_outputs of setup_locs over the enabled outputs outs.
LayoutPass(setup, outs) ==
    LET p1 == PlacePoints(NoPass, outs, setup)
        p2 == PlaceRelative(p1, outs, setup, Len(outs) + 1)
        unplaced(o) == ~IsPlaced(p2, o)
    IN  IF p2.finished THEN PlaceRemaining(p2, SelectSeq(outs, unplaced))
        ELSE p2

\* One layout pass of Output::setup_locs.  A pass reads nothing an earlier
\* pass left behind, so a behaviour follows a single pass.
layout_outputs(setup, outs) ==
    /\ ~aborted /\ last.op # "layout_outputs"
    /\ UNCHANGED <<winvars, geometry, x11_loc, resize_state, grab, pointer,
                   pressed, aborted>>
    /\ LET ps == LayoutPass(setup, outs)
       IN  last' = [NoOp EXCEPT !.op = "layout_outputs", !.ok = ps.finished,
                                !.setup = setup, !.outputs = outs,
                                !.calls = ps.calls]

\* The layout specification: passes over every setup list of up to MaxSetup
\* entries and two lists of enabled outputs.
Alignments == {"LeftAlignTop", "BottomAlignCenter"}

SetupEntries ==
    {PointEntry("A", 0, 0), PointEntry("A", 3, 1), PointEntry("B", 3, 1)}
    \cup {RelativeToEntry(id, rel, al) :
            id \in OutputNames, rel \in OutputNames, al \in Alignments}

Setups == UNION {[1..n -> SetupEntries] : n \in 0..MaxSetup}

EnabledOutputs == {<<"A", "B", "C">>, <<"C", "A">>}

InitLocs ==
    /\ InitStacking
    /\ kind = [w \in StackWins |-> "x11"]

NextLocs ==
    /\ last.op = "init"
    /\ \E setup \in Setups, outs \in EnabledOutputs :
          layout_outputs(setup, outs)

SpecLocs == InitLocs /\ [][NextLocs]_vars

TypeOK ==
    /\ windows \subseteq Wins
    /\ grab.kind \in {"none", "resize"}
    /\ \A w \in Wins : resize_state[w].st \in
           {"Idle", "Resizing", "WaitingForLastCommit"}

\* ================================================================= claims
\* C1: when a resize request for a live floating window is accepted, the
\* window's surface is in state Resizing carrying the requested edges, the
\* window's location in the Space and its geometry size, and the new grab
\* on that window is the pointer's active grab.
C1_Claim ==
    \A w \in Wins :
        (/\ last.op \in {"resize_request_server", "resize_request_client"}
         /\ last.w = w
         /\ last.ok)
        => /\ resize_state[w] = Resizing(last.edges, space[w], geometry[w])
           /\ grab.kind = "resize"
           /\ grab.window = w
           /\ grab.edges = last.edges

\* C2: a resize request for a window that is not alive or not floating
\* starts no grab: the pointer's grab slot and every surface's resize state
\* are left as they were and no configure is sent.
C2_Refused ==
    [][\A w \in Wins :
          (/\ last'.op \in {"resize_request_server", "resize_request_client"}
           /\ last'.w = w
           /\ ~alive[w] \/ ~floating[w])
          => /\ grab' = grab
             /\ resize_state' = resize_state
             /\ last'.sent = {}
             /\ ~last'.ok
             /\ ~aborted']_vars

\* A request on a tiled window of the registry was refused while another
\* grab was installed.
C2_Witness ==
    /\ last.op = "resize_request_server"
    /\ ~last.ok
    /\ last.w \in windows
    /\ ~floating[last.w]
    /\ space[last.w] # NoLoc
    /\ grab.kind = "resize"

\* C3: on a motion event the candidate size is the grab-start size with, per
\* axis, the rounded pointer delta subtracted when the held edge contains
\* left/top, added when it contains right/bottom, and unchanged otherwise.
C3_Candidate ==
    last.op = "motion_resize" =>
        LET d == Delta(pointer, grab.start)
            S == grab.initial_window_size
            e == grab.edges
            w == IF e \in {"Left", "TopLeft", "BottomLeft"} THEN S[1] - d[1]
                 ELSE IF e \in {"Right", "TopRight", "BottomRight"}
                 THEN S[1] + d[1] ELSE S[1]
            h == IF e \in {"Top", "TopLeft", "TopRight"} THEN S[2] - d[2]
                 ELSE IF e \in {"Bottom", "BottomLeft", "BottomRight"}
                 THEN S[2] + d[2] ELSE S[2]
        IN  last.cand = <<w, h>>

\* The 200x200 window grabbed at (100,100) by its top-left edge, pointer
\* moved to (80,120): the candidate is 220x180.
C3_Witness ==
    /\ last.op = "motion_resize"
    /\ grab.edges = "TopLeft"
    /\ grab.start = ExampleStart
    /\ grab.initial_window_size = ExampleSize
    /\ pointer = ExamplePtr
    /\ last.cand = <<220, 180>>

C5_Claim ==
    \A w \in Wins :
        (last.op = "release" /\ last.w = w)
        => resize_state[w].st = "WaitingForLastCommit"

\* C5 (amended): releasing the button that started the grab moves the
\* surface to WaitingForLastCommit, carrying the grab's edges and start
\* location and size, when the window is alive and is a Wayland toplevel or
\* an X11 window that is not override-redirect and has a surface; otherwise
\* the state is left as it was.  The release never sets Idle.
C5_Amended ==
    [][\A w \in Wins :
          (last'.op = "release" /\ last'.w = w)
          => /\ grab.kind = "resize" /\ grab.window = w
             /\ grab' = NoGrab
             /\ IF /\ alive[w]
                   /\ \/ kind[w] = "wayland"
                      \/ kind[w] = "x11" /\ wl_surface[w]
                THEN resize_state'[w] =
                         WaitingForLastCommit(grab.edges,
                                              grab.initial_window_loc,
                                              grab.initial_window_size)
                ELSE resize_state'[w] = resize_state[w]
             /\ resize_state'[w].st = "Idle" => resize_state[w].st = "Idle"]_vars

\* The release of a grab on a Wayland toplevel left it waiting for the last
\* commit; the final size was sent without the resizing flag.
C5_Witness ==
    /\ last.op = "release"
    /\ last.w \in Wins
    /\ last.pre = "Resizing"
    /\ kind[last.w] = "wayland"
    /\ resize_state[last.w].st = "WaitingForLastCommit"
    /\ \E m \in last.sent : ~m.resizing

\* C6: a surface in WaitingForLastCommit that receives a buffer commit is
\* Idle after that commit, in every reachable state in which the commit
\* arrives, including when the window's layout mode or mapping changed
\* between the release and the commit.
C6_Claim ==
    \A w \in Wins :
        (/\ last.op = "commit"
         /\ last.w = w
         /\ last.pre = "WaitingForLastCommit")
        => resize_state[w].st = "Idle"

\* C7: every commit processed while the surface is Resizing or
\* WaitingForLastCommit for a resize grab with start location L and start
\* size S sets, for committed size C, x to L.x + (S.w - C.w) if the held
\* edge contains Left and y to L.y + (S.h - C.h) if it contains Top, and
\* writes the result to the floating location and the Space.
C7_Claim ==
    [][\A w \in Wins :
          (/\ last'.op = "commit"
           /\ last'.w = w
           /\ last'.ok
           /\ grab.kind = "resize"
           /\ grab.window = w)
          => LET L == grab.initial_window_loc
                 S == grab.initial_window_size
                 C == geometry'[w]
             IN  /\ grab.edges \in {"Left", "TopLeft", "BottomLeft"}
                       => /\ space'[w][1] = L[1] + (S[1] - C[1])
                          /\ last'.floating_loc[1] = L[1] + (S[1] - C[1])
                 /\ grab.edges \in {"Top", "TopLeft", "TopRight"}
                       => /\ space'[w][2] = L[2] + (S[2] - C[2])
                          /\ last'.floating_loc[2] = L[2] + (S[2] - C[2])]_vars

\* C8 (as stated): a commit on an Idle surface changes neither the window's
\* location nor the state; a commit on a Resizing surface applies the
\* position correction and leaves the state Resizing.
C8_Claim ==
    [][\A w \in Wins :
          (last'.op = "commit" /\ last'.w = w)
          => /\ resize_state[w].st = "Idle"
                 => /\ resize_state'[w] = resize_state[w]
                    /\ space' = space
                    /\ last'.floating_loc = NoLoc
             /\ resize_state[w].st = "Resizing"
                 => /\ resize_state'[w] = resize_state[w]
                    /\ last'.floating_loc =
                           NewLoc(resize_state[w], space[w], geometry'[w])]_vars

\* C8 (amended): a commit on an Idle surface changes neither the window's
\* location nor the state; a commit on a Resizing surface leaves the state
\* Resizing, and applies the position correction when the surface's window
\* is in the registry, floating and in the Space, and moves nothing
\* otherwise.
C8_Amended ==
    [][\A w \in Wins :
          (last'.op = "commit" /\ last'.w = w)
          => /\ resize_state[w].st = "Idle"
                 => /\ resize_state'[w] = resize_state[w]
                    /\ space' = space
                    /\ last'.floating_loc = NoLoc
             /\ resize_state[w].st = "Resizing"
                 => /\ resize_state'[w] = resize_state[w]
                    /\ IF w \in windows /\ floating[w] /\ space[w] # NoLoc
                       THEN LET rs == resize_state[w]
                                C == geometry'[w]
                                x == IF rs.edges \in {"Left", "TopLeft", "BottomLeft"}
                                     THEN rs.loc[1] + (rs.size[1] - C[1])
                                     ELSE space[w][1]
                                y == IF rs.edges \in {"Top", "TopLeft", "TopRight"}
                                     THEN rs.loc[2] + (rs.size[2] - C[2])
                                     ELSE space[w][2]
                            IN  /\ last'.floating_loc = <<x, y>>
                                /\ space'[w] = <<x, y>>
                       ELSE /\ last'.floating_loc = NoLoc
                            /\ space' = space]_vars

\* A commit on a Resizing surface moved the window and left it Resizing.
C8_Witness ==
    /\ last.op = "commit"
    /\ last.w \in Wins
    /\ last.pre = "Resizing"
    /\ last.ok
    /\ resize_state[last.w].st = "Resizing"
    /\ space[last.w] = last.floating_loc
    /\ space[last.w] # resize_state[last.w].loc

\* C9: every change of a surface's resize-commit state is Idle -> Resizing,
\* Resizing -> WaitingForLastCommit or WaitingForLastCommit -> Idle;
\* Resizing -> Idle, Idle -> WaitingForLastCommit and
\* WaitingForLastCommit -> Resizing never occur.
C9_Claim ==
    [][\A w \in Wins :
          (/\ wl_surface[w]
           /\ wl_surface'[w]
           /\ resize_state'[w].st # resize_state[w].st)
          => <<resize_state[w].st, resize_state'[w].st>> \in
                 {<<"Idle", "Resizing">>,
                  <<"Resizing", "WaitingForLastCommit">>,
                  <<"WaitingForLastCommit", "Idle">>}]_vars

\* C10: for either order of the button release and the final commit, once a
\* commit has been handled after the release the state is Idle and the
\* location on each held top/left axis is the grab-start location plus
\* (grab-start size - committed size); a final commit that arrives before
\* the release leaves the state Resizing until the release.
C10_Claim ==
    [][\A w \in Wins :
          (last'.op = "commit" /\ last'.w = w /\ w \in windows)
          => /\ resize_state[w].st = "WaitingForLastCommit"
                 => LET rs == resize_state[w]
                        C == geometry'[w]
                    IN  /\ resize_state'[w] = Idle
                        /\ rs.edges \in {"Left", "TopLeft", "BottomLeft"}
                              => space'[w][1] = rs.loc[1] + (rs.size[1] - C[1])
                        /\ rs.edges \in {"Top", "TopLeft", "TopRight"}
                              => space'[w][2] = rs.loc[2] + (rs.size[2] - C[2])
             /\ resize_state[w].st = "Resizing"
                 => resize_state'[w].st = "Resizing"]_vars

\* C11 (as stated): during an active resize grab a button event after which
\* the triggering button is still pressed is forwarded and does not end the
\* grab (the grab and the resize-commit state stay as they were); the grab
\* ends exactly when a button event leaves the triggering button no longer
\* pressed.
C11_Claim ==
    [][(grab.kind = "resize" /\ last'.op \in {"button", "release"})
       => /\ grab' = grab <=> grab.button_used \in pressed'
          /\ grab' = grab => /\ resize_state' = resize_state
                             /\ last'.ok
          /\ grab' # grab => grab' = NoGrab]_vars

\* C11 (amended): as stated, except that a grab started by a client request
\* whose surface is no longer alive is discarded by the pointer on any button
\* event, before the event reaches the grab; the resize-commit state is then
\* left as it was.
C11_Amended ==
    [][(grab.kind = "resize" /\ last'.op \in {"button", "release"})
       => LET dead == grab.focus /\ ~alive[grab.window]
          IN  /\ grab' = grab <=> (grab.button_used \in pressed' /\ ~dead)
              /\ grab' = grab => /\ resize_state' = resize_state
                                 /\ last'.ok
              /\ grab' # grab => grab' = NoGrab
              /\ dead => resize_state' = resize_state]_vars

\* Another button was pressed during the grab: the grab is still installed
\* and the surface still Resizing.
C11_Witness ==
    /\ last.op = "button"
    /\ last.ok
    /\ grab.kind = "resize"
    /\ pressed = {grab.button_used, 2}
    /\ grab.button_used # 2
    /\ resize_state[grab.window].st = "Resizing"

\* C12 (as stated): if the grabbed window is no longer alive when a motion
\* event arrives, the grab is unset on that event and the cursor image is
\* reset to the default; no size is computed, no floating geometry is
\* written and no configure is sent.
C12_Claim ==
    [][(/\ grab.kind = "resize"
        /\ ~alive[grab.window]
        /\ last'.op \in {"motion", "motion_dead", "motion_resize"})
       => /\ grab' = NoGrab
          /\ last'.cursor = "Default"
          /\ last'.cand = NoSize
          /\ last'.floating_size = NoSize
          /\ last'.floating_loc = NoLoc
          /\ last'.sent = {}
          /\ geometry' = geometry]_vars

\* C12 (amended): if the grabbed window is no longer alive when a motion
\* event arrives, the grab is unset on that event, no size is computed, no
\* floating geometry is written and no configure is sent; the cursor image
\* is reset to the default when the grab was started by the compositor
\* (a grab started by a client request is discarded by the pointer before
\* the event reaches it, and the cursor image is not touched).
C12_Amended ==
    [][(/\ grab.kind = "resize"
        /\ ~alive[grab.window]
        /\ last'.op \in {"motion", "motion_dead", "motion_resize"})
       => /\ grab' = NoGrab
          /\ ~grab.focus => last'.cursor = "Default"
          /\ grab.focus => last'.cursor = "-"
          /\ last'.cand = NoSize
          /\ last'.floating_size = NoSize
          /\ last'.floating_loc = NoLoc
          /\ last'.sent = {}
          /\ geometry' = geometry
          /\ resize_state' = resize_state]_vars

\* A motion event found the window of a compositor-started grab dead: the
\* grab is gone and the cursor is the default one.
C12_Witness ==
    /\ last.op = "motion_dead"
    /\ last.w \in Wins
    /\ ~alive[last.w]
    /\ grab = NoGrab
    /\ last.cursor = "Default"
    /\ last.sent = {}

\* C13: a commit changes the window's x (in the Space and in the floating
\* location it writes) only if the edge set the resize-commit state carries
\* contains Left, and its y only if it contains Top; for Right, Bottom,
\* BottomRight and None the Space mapping is unchanged by the commit and no
\* configure is sent to a foreign-protocol client.
C13_Correction ==
    [][\A w \in Wins :
         (last'.op = "commit" /\ last'.w = w)
         => LET e == resize_state[w].edges
                hasLeft == e \in {"Left", "TopLeft", "BottomLeft"}
                hasTop == e \in {"Top", "TopLeft", "TopRight"}
            IN  /\ space[w] = NoLoc => space'[w] = NoLoc
                /\ space[w] # NoLoc =>
                     /\ space'[w] # NoLoc
                     /\ space'[w][1] # space[w][1] => hasLeft
                     /\ space'[w][2] # space[w][2] => hasTop
                     /\ last'.floating_loc # NoLoc =>
                          /\ last'.floating_loc[1] # space[w][1] => hasLeft
                          /\ last'.floating_loc[2] # space[w][2] => hasTop
                /\ e \in {"Right", "Bottom", "BottomRight", "None"} =>
                     /\ space' = space
                     /\ \A m \in last'.sent : m.proto # "x11"]_vars

\* C13 witness: a commit processed for a grab on the Left edge moved the
\* window along x and left its y alone.
C13_Witness ==
    \E w \in Wins :
        /\ last.op = "commit" /\ last.w = w /\ last.ok
        /\ resize_state[w].st = "Resizing" /\ resize_state[w].edges = "Left"
        /\ space[w] # NoLoc
        /\ space[w][1] # resize_state[w].loc[1]
        /\ space[w][2] = resize_state[w].loc[2]
        /\ geometry[w][2] # resize_state[w].size[2]

\* C14: the position correction is idempotent: a commit that follows a
\* processed commit (state not Idle) of the same surface with the same
\* committed size leaves the Space mapping as the first commit left it, and
\* writes the floating location, if it writes it, with the value the first
\* commit wrote.
C14_Idempotent ==
    [][\A w \in Wins :
         (last'.op = "commit" /\ last'.w = w /\ last'.again)
         => /\ space' = space
            /\ last'.floating_loc \in {NoLoc, last.floating_loc}
            /\ last'.floating_loc # NoLoc => last'.floating_loc = space'[w]]_vars

\* C14 witness: the second of two commits with the same size was processed
\* in state Resizing, for a window the first commit had moved along both
\* axes.
C14_Witness ==
    \E w \in Wins :
        /\ last.op = "commit" /\ last.w = w /\ last.again /\ last.ok
        /\ last.pre = "Resizing"
        /\ resize_state[w].edges = "TopLeft"
        /\ space[w] = last.floating_loc
        /\ space[w][1] # resize_state[w].loc[1]
        /\ space[w][2] # resize_state[w].loc[2]

\* C15: the size a motion with pointer delta (dx, dy) produces (the grab's
\* last size, also written to the floating size) has the width that the
\* delta (dx, 0) produces and the height that the delta (0, dy) produces,
\* for every edge and every advertised minimum and maximum.
C15_AxisIndependent ==
    (last.op = "motion_resize" /\ last.ok /\ grab.kind = "resize")
    => LET w == grab.window
           d == Delta(pointer, grab.start)
           S == grab.initial_window_size
           horizontal == ClampSize(
               NewWindowSize(grab.edges, S, <<d[1], 0>>),
               hints[w].min, hints[w].max)
           vertical == ClampSize(
               NewWindowSize(grab.edges, S, <<0, d[2]>>),
               hints[w].min, hints[w].max)
       IN  /\ grab.last_window_size = <<horizontal[1], vertical[2]>>
           /\ last.floating_size = <<horizontal[1], vertical[2]>>

\* C15 witness: a drag of the TopLeft corner along both axes changed both
\* the width and the height.
C15_Witness ==
    /\ last.op = "motion_resize" /\ last.ok /\ grab.kind = "resize"
    /\ grab.edges = "TopLeft"
    /\ Delta(pointer, grab.start)[1] # 0
    /\ Delta(pointer, grab.start)[2] # 0
    /\ Delta(pointer, grab.start)[1] # Delta(pointer, grab.start)[2]
    /\ grab.last_window_size[1] # grab.initial_window_size[1]
    /\ grab.last_window_size[2] # grab.initial_window_size[2]

\* C16: while the surface of a mapped window is in state
\* WaitingForLastCommit, a handler other than the commit changes neither
\* the window's Space location nor the client-side geometry location, writes
\* no floating location, and leaves the recorded anchor (edges, location,
\* size) as it is unless the state returns to Idle; in particular a
\* configure request and a new resize request do not.
C16_Claim ==
    [][\A w \in Wins :
         (/\ resize_state[w].st = "WaitingForLastCommit"
          /\ wl_surface[w] /\ wl_surface'[w]
          /\ space[w] # NoLoc /\ space'[w] # NoLoc
          /\ last'.op # "commit")
         => /\ space'[w] = space[w]
            /\ x11_loc'[w] = x11_loc[w]
            /\ last'.floating_loc = NoLoc
            /\ resize_state'[w].st # "Idle"
                 => resize_state'[w] = resize_state[w]]_vars

\* C17: a map request for a non-override-redirect foreign surface adds a
\* window to the registry and touches neither the Space mapping nor the
\* Z-order stack; the surface is marked mapped in that step exactly when
\* the window-rule evaluator answers that no request was dispatched;
\* otherwise it becomes mapped only when the evaluation completes; and the
\* window enters the Space only by the map notification.
C17_MapRequest ==
    [][\A w \in Wins :
         kind[w] = "x11"
         => /\ (last'.op = "map_window_request" /\ last'.w = w)
               => /\ w \in windows'
                  /\ windows' \ {w} = windows \ {w}
                  /\ \A v \in Wins \ {w} : dups'[v] = dups[v]
                  /\ IF w \in windows
                       THEN dups'[w] = dups[w] + 1
                       ELSE dups'[w] = dups[w]
                  /\ space' = space
                  /\ z_index_stack' = z_index_stack
                  /\ last'.rule \in {"sent", "not_sent"}
                  /\ mapped'[w] <=> last'.rule = "not_sent"
            /\ (~mapped[w] /\ mapped'[w])
               => \/ last'.op = "map_window_request" /\ last'.rule = "not_sent"
                  \/ last'.op = "window_rule_finished"
            /\ (space[w] = NoLoc /\ space'[w] # NoLoc)
               => last'.op = "map_window_notify" /\ last'.w = w]_vars

\* C17 witness: after a map request whose window-rule evaluation was
\* dispatched the window is in the registry, unmapped, and neither in the
\* Space nor in the Z-order stack.
C17_Witness ==
    \E w \in Wins :
        /\ last.op = "map_window_request" /\ last.w = w
        /\ last.rule = "sent" /\ kind[w] = "x11"
        /\ w \in windows /\ ~mapped[w]
        /\ space[w] = NoLoc
        /\ \A i \in 1..Len(z_index_stack) : z_index_stack[i] # w

\* C18: the handler of an override-redirect map has put the window into the
\* registry, into the Space at exactly the geometry location its surface
\* declares, and on top of the Z-order stack, and has dispatched no
\* window-rule evaluation request.
C18_OverrideRedirect ==
    \A w \in Wins :
        (last.op = "mapped_override_redirect_window" /\ last.w = w)
        => /\ w \in windows
           /\ space[w] = x11_loc[w]
           /\ Len(z_index_stack) > 0
           /\ z_index_stack[Len(z_index_stack)] = w
           /\ Len(Without(z_index_stack, w)) = Len(z_index_stack) - 1
           /\ last.rule = "-"

\* C18 witness: an override-redirect window that declares (50,50) has been
\* mapped there.
C18_Witness ==
    \E w \in Wins :
        /\ last.op = "mapped_override_redirect_window" /\ last.w = w
        /\ kind[w] = "x11_or"
        /\ x11_loc[w] = ExampleLoc /\ space[w] = ExampleLoc
        /\ w \in windows /\ z_index_stack = <<w>>

\* C19: a configure request for a foreign window that is in the registry
\* sets the surface's geometry to the requested one (absent fields keeping
\* their current value) if the window is override-redirect or floating, and
\* leaves the geometry unchanged, sending nothing, if it is a tiled window
\* that is not override-redirect.
C19_Claim ==
    [][\A w \in Wins :
         (last'.op = "configure_request" /\ last'.w = w /\ w \in windows)
         => LET r == last'.req
                geo_loc == <<unwrap_or(r[1], x11_loc[w][1]),
                             unwrap_or(r[2], x11_loc[w][2])>>
                geo_size == <<unwrap_or(r[3], geometry[w][1]),
                              unwrap_or(r[4], geometry[w][2])>>
            IN  IF kind[w] = "x11_or" \/ floating[w]
                THEN /\ x11_loc'[w] = geo_loc
                     /\ geometry'[w] = geo_size
                ELSE /\ x11_loc'[w] = x11_loc[w]
                     /\ geometry'[w] = geometry[w]
                     /\ last'.sent = {}]_vars

\* C21: a configure request from a foreign window that is not yet mapped
\* into the Space is granted whatever its layout mode, whether it has not
\* requested a map yet or has requested one and awaits the window-rule
\* evaluation or the map notification.
C21_Claim ==
    [][\A w \in Wins :
         (/\ last'.op = "configure_request" /\ last'.w = w
          /\ kind[w] = "x11" /\ space[w] = NoLoc)
         => last'.ok]_vars

\* C21 (amended): a configure request from a foreign surface that has no
\* window in the registry (it has not requested a map) is granted whatever
\* its layout mode, and applied when the surface is not override-redirect;
\* a window that is in the registry and not yet mapped into the Space is
\* granted exactly when it is floating.
C21_Amended ==
    [][\A w \in Wins :
         (last'.op = "configure_request" /\ last'.w = w)
         => /\ w \notin windows
               => /\ last'.ok
                  /\ kind[w] = "x11" =>
                       last'.sent = {X11Configure(w, x11_loc'[w],
                                                  geometry'[w])}
            /\ (w \in windows /\ kind[w] = "x11" /\ space[w] = NoLoc)
               => (last'.ok <=> floating[w])]_vars

\* C21 witness: a tiled surface without a window had its request for a new
\* location granted.
C21_Witness ==
    \E w \in Wins :
        /\ last.op = "configure_request" /\ last.w = w /\ last.ok
        /\ kind[w] = "x11" /\ w \notin windows /\ ~floating[w]
        /\ last.req[1] # <<>>
        /\ x11_loc[w][1] = last.req[1][1]
        /\ last.sent # {}

\* C22: the handler of an unmap or a destroy of a foreign surface that has
\* a window removes that window from the registry, from the Space mapping
\* and from the Z-order stack in the one step, and leaves the other windows
\* where they are.
C22_Removal ==
    [][\A w \in StackWins :
         (/\ last'.op \in {"unmapped_window", "destroyed_window"}
          /\ last'.w = w /\ w \in windows)
         => /\ IF dups[w] = 0
                 THEN windows' = windows \ {w} /\ dups' = dups
                 ELSE /\ windows' = windows
                      /\ dups' = [dups EXCEPT ![w] = @ - 1]
            /\ space'[w] = NoLoc
            /\ \A i \in 1..Len(z_index_stack') : z_index_stack'[i] # w
            /\ \A v \in StackWins \ {w} : space'[v] = space[v]
            /\ z_index_stack' = Without(z_index_stack, w)]_vars

\* C22 witness: a window that was in the registry has been unmapped and is
\* in none of the three, while two other windows are still mapped.
C22_Witness ==
    \E w \in StackWins :
        /\ last.op = "unmapped_window" /\ last.w = w /\ last.ok
        /\ w \notin windows /\ space[w] = NoLoc
        /\ Len(z_index_stack) = 2
        /\ \A i \in 1..Len(z_index_stack) : z_index_stack[i] # w

\* C23: after every handler (map request, map notification,
\* override-redirect map, raise, unmap, destroy) a window is in the Space
\* mapping exactly when it is in the Z-order stack, and the stack holds no
\* window twice; raising a window that is in the stack puts it on top
\* without changing the length of the stack.
C23_SpaceIffStack ==
    [][
        /\ \A w \in StackWins :
            (space'[w] # NoLoc)
            <=> (\E i \in 1..Len(z_index_stack') : z_index_stack'[i] = w)
        /\ \A i, j \in 1..Len(z_index_stack') :
            (z_index_stack'[i] = z_index_stack'[j]) => (i = j)
        /\ (last'.op = "raise_window")
            => /\ Len(z_index_stack') = Len(z_index_stack)
               /\ z_index_stack'[Len(z_index_stack')] = last'.w
      ]_vars

\* C23 witness: with three windows mapped, the one at the bottom of the
\* stack has been raised to the top.
C23_Witness ==
    /\ last.op = "raise_window"
    /\ Len(z_index_stack) = 3
    /\ z_index_stack[3] = last.w
    /\ kind[z_index_stack[1]] = "x11_or"
    /\ \A w \in StackWins : space[w] # NoLoc

\* C25: the order handed to the foreign stacking primitive holds exactly the
\* foreign, not override-redirect windows of the Z-order stack, each once;
\* every window on an active tag comes after (is stacked above) every window
\* that is not; and two windows of the same group keep the relative order
\* they have in the Z-order stack.
C25_StackingOrder ==
    (last.op = "update_xwayland_stacking_order" /\ last.ok)
    => LET o == last.order
           pos(v) == CHOOSE i \in 1..Len(z_index_stack) : z_index_stack[i] = v
       IN  /\ {o[i] : i \in 1..Len(o)}
                = {z_index_stack[i] : i \in 1..Len(z_index_stack)}
                    \cap {v \in StackWins : kind[v] = "x11"}
           /\ \A i, j \in 1..Len(o) : (o[i] = o[j]) => (i = j)
           /\ \A i, j \in 1..Len(o) :
                (o[i] \in last.active /\ o[j] \notin last.active) => (j < i)
           /\ \A i, j \in 1..Len(o) :
                (i < j /\ ((o[i] \in last.active) <=> (o[j] \in last.active)))
                => (pos(o[i]) < pos(o[j]))

\* C25 witness: three foreign windows are pushed, two of them on an active
\* tag, and the lowest window of the Z-order stack is one of the active ones,
\* so the pushed order differs from the stack.
C25_Witness ==
    /\ last.op = "update_xwayland_stacking_order" /\ last.ok
    /\ Len(last.order) = 3 /\ Len(z_index_stack) = 3
    /\ z_index_stack[1] \in last.active
    /\ last.order[1] \notin last.active
    /\ last.order[2] \in last.active /\ last.order[3] \in last.active

\* C24: selection access is granted to a window manager instance exactly
\* when the keyboard focus is a window whose surface is a foreign surface of
\* that instance; with no keyboard, no focus, a target that is not a window,
\* a native window or a window of another instance it is denied.
C24_SelectionAccess ==
    (last.op = "allow_selection_access")
    => (last.ok
        <=> \E w \in windows :
              /\ last.focus = <<"Window", w>>
              /\ kind[w] # "wayland"
              /\ xwm_id(w) = last.xwm)

\* C24 witness: access was granted while a second foreign window, of the
\* other instance, was in the registry too.
C24_Witness ==
    /\ last.op = "allow_selection_access" /\ last.ok
    /\ last.focus = <<"Window", 1>> /\ last.xwm = 1
    /\ 3 \in windows /\ kind[3] = "x11"

\* C26: the list returned by render composition is the overlay-layer
\* elements, the fullscreen-and-up group, the top-layer elements, the rest
\* group, the bottom-layer elements and the background-layer elements, in
\* this order, and its layer elements are those of the layer map.
C26_Composition ==
    (last.op = "output_render_elements")
    => LET e == last.elements
           band(layer) ==
               LET keep(x) == x.el = "layer" /\ x.layer = layer
               IN  SelectSeq(e, keep)
           isLayer(x) == x.el = "layer"
       IN  /\ e = band("Overlay") \o last.fullscreen_and_up \o band("Top")
                    \o last.rest \o band("Bottom") \o band("Background")
           /\ Len(SelectSeq(e, isLayer)) = Len(last.layers)
           /\ \A k \in 1..Len(last.layers) :
                \E i \in 1..Len(e) : e[i] = LayerElem(last.layers[k], k)

\* C26 witness: a composition in which all six parts have elements.
C26_Witness ==
    /\ last.op = "output_render_elements"
    /\ Len(last.layers) = 5
    /\ last.transaction = <<>>
    /\ Len(last.fullscreen_and_up) >= 2 /\ Len(last.rest) >= 2

\* C27: without a layout transaction, with the windows on an active tag
\* numbered from the bottom in the order they are passed, the
\* fullscreen-and-up group holds the elements of the lowest fullscreen window
\* and of every window above it, and the rest group those of every window
\* below it; without a fullscreen window the first group is empty.
C27_Partition ==
    (last.op = "output_render_elements" /\ last.transaction = <<>>)
    => LET on(w) == w \in last.active
           live == SelectSeq(last.wins, on)
           up(i) == \E j \in 1..i : fullscreen[live[j]]
           inGroup(g, x) == \E k \in 1..Len(g) : g[k] = x
           z(w) == CHOOSE i \in 1..Len(live) : live[i] = w
       IN  /\ \A i \in 1..Len(live) : \A n \in 1..NumElems(live[i]) :
                /\ inGroup(last.fullscreen_and_up, WindowElem(live[i], n))
                     <=> up(i)
                /\ inGroup(last.rest, WindowElem(live[i], n)) <=> ~up(i)
           /\ \A k \in 1..Len(last.fullscreen_and_up) :
                LET x == last.fullscreen_and_up[k]
                IN  x.el = "window" /\ on(x.w) /\ up(z(x.w))
           /\ \A k \in 1..Len(last.rest) :
                LET x == last.rest[k]
                IN  x.el = "window" /\ on(x.w) /\ ~up(z(x.w))
           /\ (\A i \in 1..Len(live) : ~fullscreen[live[i]])
                => last.fullscreen_and_up = <<>>

\* C27 witness: five windows passed bottom first, all on an active tag, the
\* third one fullscreen and one more above it: the upper three are in the
\* first group, the lower two in the rest.
C27_Witness ==
    /\ last.op = "output_render_elements" /\ last.transaction = <<>>
    /\ last.wins = <<1, 2, 3, 4, 5>> /\ last.active = RenderWins
    /\ fullscreen = [w \in RenderWins |-> w \in {3, 5}]
    /\ {last.fullscreen_and_up[k].w : k \in 1..Len(last.fullscreen_and_up)}
         = {3, 5}
    /\ {last.rest[k].w : k \in 1..Len(last.rest)} = {1, 2}

\* C28: in the list returned by render composition no window element, live
\* or of a snapshot, comes before an overlay-layer element, and none comes
\* after a background-layer element.
C28_WindowsBetweenLayers ==
    (last.op = "output_render_elements")
    => LET e == last.elements
           isWindow(x) == x.el \in {"window", "snapshot"}
       IN  \A i, j \in 1..Len(e) :
             (i < j)
             => /\ ~(isWindow(e[i]) /\ e[j].el = "layer"
                        /\ e[j].layer = "Overlay")
                /\ ~(e[i].el = "layer" /\ e[i].layer = "Background"
                        /\ isWindow(e[j]))

\* C28 witness: a layout transaction is in flight, with snapshot elements in
\* both groups, under two overlay surfaces and over a background surface.
C28_Witness ==
    /\ last.op = "output_render_elements"
    /\ last.transaction # <<>>
    /\ Len(last.fullscreen_and_up) = 1 /\ Len(last.rest) = 2
    /\ Len(last.layers) = 5

\* C29: a render composition leaves the state record of every window, the
\* Space mapping and the Z-order stack as they were.
C29_Claim ==
    [][(last'.op = "output_render_elements")
       => UNCHANGED <<floating, fullscreen, offscreen_elem_id, space,
                      z_index_stack>>]_vars

\* C30: within each window group the windows come in the order of the
\* windows argument, the first window passed in front.
C30_Claim ==
    (last.op = "output_render_elements" /\ last.transaction = <<>>)
    => LET pos(w) == CHOOSE i \in 1..Len(last.wins) : last.wins[i] = w
           ordered(g) == \A k, l \in 1..Len(g) :
                           (k < l /\ g[k].w # g[l].w)
                           => (pos(g[k].w) < pos(g[l].w))
       IN  ordered(last.fullscreen_and_up) /\ ordered(last.rest)

\* C31: with a layout transaction in flight the two window groups are the
\* two lists of the transaction and no element of the draw list comes from a
\* live window; without one every element of the two groups is an element of
\* a window of the windows argument that is on an active tag.
C31_GroupSource ==
    (last.op = "output_render_elements")
    => LET e == last.elements
           g == last.fullscreen_and_up \o last.rest
       IN  IF last.transaction # <<>>
           THEN /\ last.fullscreen_and_up = last.transaction[1].fs_and_up
                /\ last.rest = last.transaction[1].under_fs
                /\ \A i \in 1..Len(e) : e[i].el # "window"
           ELSE /\ \A i \in 1..Len(g) :
                     /\ g[i].el = "window"
                     /\ g[i].w \in last.active
                     /\ \E k \in 1..Len(last.wins) : last.wins[k] = g[i].w
                /\ \A i \in 1..Len(e) : e[i].el # "snapshot"

\* C31 witness: a transaction is in flight while windows on an active tag,
\* one of them fullscreen, were passed.
C31_Witness ==
    /\ last.op = "output_render_elements"
    /\ last.transaction # <<>>
    /\ Len(last.fullscreen_and_up) = 1 /\ Len(last.rest) = 2
    /\ last.active = RenderWins /\ fullscreen[3]

\* C32: a window that is not in the Space mapping has no element in the
\* draw list.
C32_Claim ==
    (last.op = "output_render_elements")
    => \A i \in 1..Len(last.elements) :
         (last.elements[i].el = "window")
         => (space[last.elements[i].w] # NoLoc)

\* C33: no motion event of an active resize grab aborts the compositor; in
\* particular not the one that follows the unmap of the grabbed foreign
\* window, which is still alive and still grabbed.
C33_Claim ==
    [][(/\ grab.kind = "resize"
        /\ last'.op \in {"motion", "motion_resize", "motion_dead"})
       => ~aborted']_vars

\* C34: a resize request for a floating window that is not in the Space
\* mapping installs no grab, changes no state and raises no error.
C34_Claim ==
    [][\A w \in Wins :
          (/\ last'.op \in {"resize_request_server", "resize_request_client"}
           /\ last'.w = w
           /\ window_for_surface(w) /\ floating[w] /\ space[w] = NoLoc)
          => /\ ~aborted'
             /\ grab' = grab
             /\ resize_state' = resize_state]_vars

\* C38: after any sequence of foreign-surface lifecycle events, a repeated
\* map request for a surface that is not mapped yet included, the registry
\* holds at most one window per foreign surface, and right after the unmap
\* or the destroy of a surface no window of it is left in the registry, the
\* Space mapping or the Z-order stack.
C38_Claim ==
    \A w \in Wins :
        /\ dups[w] = 0
        /\ (last.op \in {"unmapped_window", "destroyed_window"} /\ last.w = w)
           => /\ w \notin windows
              /\ space[w] = NoLoc
              /\ \A i \in 1..Len(z_index_stack) : z_index_stack[i] # w

\* C39: an unmap or a destroy of a foreign surface that has no window in
\* the registry leaves the registry, the Space mapping and the Z-order stack
\* as they were and asks for no snapshot, no layout and no redraw.
C39_AbsentRemoval ==
    [][\A w \in StackWins :
         (/\ last'.op \in {"unmapped_window", "destroyed_window"}
          /\ last'.w = w /\ w \notin windows)
         => /\ windows' = windows /\ dups' = dups
            /\ space' = space
            /\ z_index_stack' = z_index_stack
            /\ last'.requests = {}]_vars

\* C39 witness: a foreign surface without a window has been destroyed while
\* two other windows are mapped and stay in the registry and the stack.
C39_Witness ==
    \E w \in StackWins :
        /\ last.op = "destroyed_window" /\ last.w = w /\ ~last.ok
        /\ last.requests = {}
        /\ w \notin windows
        /\ Cardinality(windows) = 2 /\ Len(z_index_stack) = 2

\* C37: whenever a resize grab on a live window that is not
\* override-redirect is the pointer's active grab, that window's surface is
\* in state Resizing; and whenever a surface is in state
\* WaitingForLastCommit, no resize grab on its window is active; also after
\* a resize request accepted while an earlier grab was still active.
C37_Claim ==
    \A w \in Wins :
        /\ (/\ grab.kind = "resize" /\ grab.window = w
            /\ alive[w] /\ kind[w] # "x11_or")
           => resize_state[w].st = "Resizing"
        /\ resize_state[w].st = "WaitingForLastCommit"
           => ~(grab.kind = "resize" /\ grab.window = w)

\* C40: every layout pass ends, for every setup list and every list of
\* enabled outputs (cyclic and self-referencing entries included), and sets
\* the location of every enabled output exactly once and of no other
\* output.
C40_Claim ==
    last.op = "layout_outputs"
    => /\ last.ok
       /\ \A o \in OutputNames :
             Cardinality({k \in 1..Len(last.calls) : last.calls[k][1] = o})
             = IF \E i \in 1..Len(last.outputs) : last.outputs[i] = o
               THEN 1 ELSE 0

\* C40 witness: a pass over three enabled outputs whose setup holds a
\* self-reference and a two-output cycle has ended with three locations
\* set.
C40_Witness ==
    /\ last.op = "layout_outputs" /\ last.ok
    /\ Len(last.outputs) = 3 /\ Len(last.calls) = 3
    /\ \E i, j, k \in 1..Len(last.setup) :
          /\ last.setup[i].kind = "RelativeTo"
          /\ last.setup[i].id = "A" /\ last.setup[i].rel = "A"
          /\ last.setup[j].kind = "RelativeTo"
          /\ last.setup[j].id = "B" /\ last.setup[j].rel = "C"
          /\ last.setup[k].kind = "RelativeTo"
          /\ last.setup[k].id = "C" /\ last.setup[k].rel = "B"

\* The right edge x + width of the output placed by call c.
C35_RightEdge(c) == c[2] + LogicalSize(c[1])[1]

\* The enabled outputs whose entries are all relative to outputs of this
\* same set: the members of relative-to cycles, self-references included,
\* and the outputs that hang on them only.
C35_Cyclic ==
    LET E == {last.outputs[i] : i \in 1..Len(last.outputs)}
        closed(S) ==
            \A o \in S :
                /\ \E i \in 1..Len(last.setup) : last.setup[i].id = o
                /\ \A i \in 1..Len(last.setup) :
                      last.setup[i].id = o
                      => /\ last.setup[i].kind = "RelativeTo"
                         /\ last.setup[i].rel \in S
    IN  UNION {S \in SUBSET E : closed(S)}

\* C35: in a layout pass, every enabled output that has no entry in the
\* setup, or whose relative-to entries form a cycle, is put top-aligned
\* directly right of the output that is rightmost when it is placed, or at
\* (0, 0) when no output was placed before it.
C35_Claim ==
    last.op = "layout_outputs"
    => \A k \in 1..Len(last.calls) :
         LET o == last.calls[k][1]
         IN  (\/ \A i \in 1..Len(last.setup) : last.setup[i].id # o
              \/ o \in C35_Cyclic)
             => IF k = 1
                THEN last.calls[k] = <<o, 0, 0>>
                ELSE \E j \in 1..(k - 1) :
                       /\ \A i \in 1..(k - 1) :
                             C35_RightEdge(last.calls[i])
                             <= C35_RightEdge(last.calls[j])
                       /\ last.calls[k]
                          = <<o, C35_RightEdge(last.calls[j]),
                              last.calls[j][3]>>

\* C35 witness: output C, which has no entry, was placed right of A at
\* (3, 1) although B, left of A, was placed after A.
C35_Witness ==
    /\ last.op = "layout_outputs"
    /\ last.calls = << <<"A", 3, 1>>, <<"B", 2, 1>>, <<"C", 5, 1>> >>
    /\ \A i \in 1..Len(last.setup) : last.setup[i].id # "C"

\* The enabled outputs other than o that the setup gives a location
\* without going through o: those whose first entry is a Point, and those
\* with an entry relative to such an output, and so on.
C36_Anchored(o) ==
    LET E == {last.outputs[i] : i \in 1..Len(last.outputs)} \ {o}
        point(p) == /\ FirstEntry(last.setup, p) # 0
                    /\ last.setup[FirstEntry(last.setup, p)].kind = "Point"
        closed(S) ==
            \A p \in E :
                (\/ point(p)
                 \/ \E i \in 1..Len(last.setup) :
                       /\ last.setup[i].id = p
                       /\ last.setup[i].kind = "RelativeTo"
                       /\ last.setup[i].rel \in S)
                => p \in S
    IN  {p \in E : \A S \in SUBSET E : closed(S) => p \in S}

\* C36: an enabled output with several entries, all of them relative, is
\* placed according to the first listed entry whose reference output is
\* enabled, next to the location that reference output is given in the
\* pass; a later entry is used only when the reference outputs of all
\* earlier entries are not enabled.  Stated for reference outputs the setup
\* gives a location without going through the output itself.
C36_Claim ==
    last.op = "layout_outputs"
    => \A o \in {last.outputs[i] : i \in 1..Len(last.outputs)} :
         LET mine == {i \in 1..Len(last.setup) : last.setup[i].id = o}
             live == {i \in mine :
                        \E k \in 1..Len(last.outputs) :
                            last.outputs[k] = last.setup[i].rel}
             first == CHOOSE i \in live : \A j \in live : i <= j
             e == last.setup[first]
         IN  (/\ Cardinality(mine) >= 2
              /\ \A i \in mine : last.setup[i].kind = "RelativeTo"
              /\ live # {}
              /\ e.rel \in C36_Anchored(o))
             => \E k, r \in 1..Len(last.calls) :
                  /\ last.calls[r][1] = e.rel
                  /\ last.calls[k]
                     = <<o>> \o AdjLoc(LogicalSize(o),
                                       <<last.calls[r][2], last.calls[r][3]>>,
                                       LogicalSize(e.rel), e.alignment)

====
